---- MODULE Spec2Model ----
(***************************************************************************)
(* Sky-drop: the fixed-timestep integrator (physics/integration), the      *)
(* force model and physics step (physics/simulation) and the constants     *)
(* (physics/constants).                                                     *)
(*                                                                         *)
(* Numbers.  The program computes in IEEE doubles; the model computes in   *)
(* exact integer multiples of the units below, chosen so that every        *)
(* constant of the program and every product on the integration path       *)
(* (a*dt, v*dt with dt = PHYSICS_DT) is an integer:                        *)
(*   time inside a step   1 tick = 1/480 s   (PHYSICS_DT is 4 ticks)       *)
(*   acceleration  1/ACC_ONE m/s^2           (GRAVITY = 196133)            *)
(*   force         1/FORCE_ONE N                                           *)
(*   velocity      1/VEL_ONE m/s  = acceleration unit * 1/120 s            *)
(*   position      1/POS_ONE m    = velocity unit * 1/120 s, kept as a     *)
(*                 pair [m, f]: whole metres and a fraction 0..POS_ONE-1   *)
(*   speed (the argument of the force laws)  1/SPEED_ONE m/s               *)
(*   air density   1/RHO_ONE kg/m^3,  drag factor k  1/K_ONE m^2           *)
(*   deployment factor  1/DF_ONE                                           *)
(* Products that leave the integration path are rounded to the unit of     *)
(* their result (MulDiv, Quot, ISqrt).                                      *)
(*                                                                         *)
(* The residual of the accumulator decides how many steps a frame runs,    *)
(* so it is kept as the double it is: a time is the exact integer number   *)
(* of 2^-60 s of a double below 1 s, in three limbs of 20 bits, and        *)
(* DblAdd / DblSub round to the 53-bit significand as IEEE 754 addition    *)
(* and subtraction do (round to nearest, ties to even).                    *)
(***************************************************************************)
EXTENDS Integers, Sequences, FiniteSets, TLC

\* ---------------------------------------------------------------- units
ACC_ONE == 20000
FORCE_ONE == 20000
VEL_ONE == ACC_ONE * 120
POS_ONE == VEL_ONE * 120
SPEED_ONE == 200
RHO_ONE == 10000
K_ONE == 10000
DF_ONE == 1000
NORM_ONE == 10000
EXP_ONE == 10000
G_ONE == 100
ALPHA_ONE == 1000
TICKS_PER_SECOND == 480
\* ticks in the 1/120 s on which the velocity and position units are built
DT_UNIT == TICKS_PER_SECOND \div 120

\* ------------------------------------------------------------ arithmetic
Abs(a) == IF a < 0 THEN -a ELSE a

Sgn(a) == IF a < 0 THEN -1 ELSE IF a > 0 THEN 1 ELSE 0

Min(a, b) == IF a < b THEN a ELSE b

Max(a, b) == IF a > b THEN a ELSE b

\* a / b rounded toward zero
Quot(a, b) == Sgn(a) * Sgn(b) * (Abs(a) \div Abs(b))

\* floor(a * b / c) for a, b >= 0 and 0 < c <= 46340, without leaving 32 bits
MulDivNat(a, b, c) ==
    LET q  == a \div c
        r  == a % c
        q2 == b \div c
        r2 == b % c
    IN  q * b + r * q2 + ((r * r2) \div c)

\* a * b / c rounded toward zero, c > 0
MulDiv(a, b, c) == Sgn(a) * Sgn(b) * MulDivNat(Abs(a), Abs(b), c)

RECURSIVE SqrtSearch(_, _, _)
SqrtSearch(n, lo, hi) ==
    IF lo >= hi THEN lo
    ELSE LET mid == (lo + hi + 1) \div 2
         IN  IF mid * mid <= n THEN SqrtSearch(n, mid, hi)
                               ELSE SqrtSearch(n, lo, mid - 1)

\* Math.sqrt, rounded down to the unit
ISqrt(n) == SqrtSearch(n, 0, 46340)

\* ---------------------------------------------- doubles that hold a time
\* a limb holds 20 bits
LIMB == 1048576

\* the double a * 2^-20 + b * 2^-40 + c * 2^-60 seconds
Dbl(a, b, c) == [a |-> a, b |-> b, c |-> c]

DblZero == Dbl(0, 0, 0)

\* carries (or borrows) b and c into range
DblNorm(a, b, c) ==
    Dbl(a + (b + c \div LIMB) \div LIMB, (b + c \div LIMB) % LIMB, c % LIMB)

\* exact sum, difference and small multiple
DblSum(x, y) == DblNorm(x.a + y.a, x.b + y.b, x.c + y.c)

DblDiff(x, y) == DblNorm(x.a - y.a, x.b - y.b, x.c - y.c)

DblTimes(x, n) == DblNorm(x.a * n, x.b * n, x.c * n)

DblLess(x, y) ==
    \/ x.a < y.a
    \/ x.a = y.a /\ x.b < y.b
    \/ x.a = y.a /\ x.b = y.b /\ x.c < y.c

DblLeq(x, y) == x = y \/ DblLess(x, y)

DblMin(x, y) == IF DblLess(y, x) THEN y ELSE x

\* the spacing, in 2^-60 s, of the doubles around one whose top limb is a:
\* 1 below 2^53 * 2^-60 s, doubling with every binade above
RECURSIVE DblUlp(_)
DblUlp(a) == IF a < 8192 THEN 1 ELSE 2 * DblUlp(a \div 2)

\* round to nearest, ties to even, at the spacing ulp
DblRoundAt(x, ulp) ==
    IF 2 * (x.c % ulp) < ulp \/ (2 * (x.c % ulp) = ulp /\ (x.c \div ulp) % 2 = 0)
    THEN Dbl(x.a, x.b, x.c - (x.c % ulp))
    ELSE DblNorm(x.a, x.b, x.c - (x.c % ulp) + ulp)

DblRound(x) == DblRoundAt(x, DblUlp(x.a))

\* the + and - of the program on two times
DblAdd(x, y) == DblRound(DblSum(x, y))

DblSub(x, y) == DblRound(DblDiff(x, y))

\* a time in ticks, to the nearest tick
Ticks(t) == (DblTimes(t, TICKS_PER_SECOND).a + LIMB \div 2) \div LIMB

\* ------------------------------------------------------------- positions
\* a position coordinate: whole metres m and a fraction f of POS_ONE
Coord(m, f) == [m |-> m, f |-> f]

Metres(m) == Coord(m, 0)

\* coordinate + d position units
CoordAdd(c, d) ==
    LET t == c.f + d
    IN  Coord(c.m + (t \div POS_ONE), t % POS_ONE)

\* a - b in position units (a and b less than 7 m apart)
CoordDiff(a, b) == (a.m - b.m) * POS_ONE + (a.f - b.f)

CoordLess(a, b) == a.m < b.m \/ (a.m = b.m /\ a.f < b.f)

CoordLeq(a, b) == a = b \/ CoordLess(a, b)

Vec(x, y, z) == [x |-> x, y |-> y, z |-> z]

ZeroVel == Vec(0, 0, 0)

\* ------------------------------------------------------------- constants
\* physics/constants: fundamental constants and simulation parameters
GRAVITY == 196133
RHO_SEA_LEVEL == 12250
SCALE_HEIGHT == 8500
\* 1 / 120 = 0x1.1111111111111p-7
PHYSICS_DT == Dbl(8738, 139810, 139810)
\* 0.1 = 0x1.999999999999ap-4
MAX_FRAME_DELTA == Dbl(104857, 629145, 629152)
MASS_SKYDIVER == 80
MASS_WITH_CANOPY == 90
JUMP_ALTITUDE == 3048

\* physics/constants: body position drag configurations (k = 0.5 * Cd * A)
DRAG_BELLY == [name |-> "belly", k |-> 4750]

DRAG_DIVE == [name |-> "dive", k |-> 875]

DRAG_ARCH == [name |-> "arch", k |-> 7150]

DRAG_TRACK == [name |-> "track", k |-> 2400]

DRAG_PARACHUTE == [name |-> "parachute", k |-> 100000]

\* physics/constants: parachute and control parameters (m/s, N)
PARACHUTE_FORWARD_SPEED == 12
PARACHUTE_BRAKE_DESCENT == 6
PARACHUTE_GLIDE_DESCENT == 4
TRACK_THRUST == 400
FLARE_LIFT_FORCE == 800

\* ------------------------------------------------- physics/constants.ts
\* Math.exp(-x), x and the result in 1/EXP_ONE: the series for 0 <= x <= 1,
\* and 0 from x = 750 on, where the double underflows to 0
ExpNeg(x) ==
    IF x >= 750 * EXP_ONE THEN 0
    ELSE LET t2 == MulDiv(x, x, 2 * EXP_ONE)
             t3 == MulDiv(t2, x, 3 * EXP_ONE)
             t4 == MulDiv(t3, x, 4 * EXP_ONE)
             t5 == MulDiv(t4, x, EXP_ONE) \div 5
         IN  EXP_ONE - x + t2 - t3 + t4 - t5

\* altitude in whole metres, 0..SCALE_HEIGHT or from 750 * SCALE_HEIGHT on
getAirDensity(altitude) ==
    MulDiv(RHO_SEA_LEVEL, ExpNeg(MulDiv(altitude, EXP_ONE, SCALE_HEIGHT)), EXP_ONE)

\* ------------------------------------------------ physics/integration.ts
\* Math.sqrt(x*x + y*y + z*z) in the unit of the components; components
\* beyond 26000 units are scaled down first to stay within 32 bits
velocityMagnitude(v) ==
    LET mx == Max(Abs(v.x), Max(Abs(v.y), Abs(v.z)))
        s  == (mx \div 26000) + 1
        x  == Abs(v.x) \div s
        y  == Abs(v.y) \div s
        z  == Abs(v.z) \div s
    IN  s * ISqrt(x * x + y * y + z * z)

\* the unit vector, components in 1/NORM_ONE
normalize(v) ==
    LET mag == velocityMagnitude(v)
    IN  IF mag = 0 THEN Vec(0, 0, 0)
        ELSE Vec(MulDiv(v.x, NORM_ONE, mag),
                 MulDiv(v.y, NORM_ONE, mag),
                 MulDiv(v.z, NORM_ONE, mag))

\* ------------------------------------------------- physics/simulation.ts
Controls(dive, arch, left, right, track, flare) ==
    [dive |-> dive, arch |-> arch, left |-> left, right |-> right,
     track |-> track, flare |-> flare]

\* mutant: arch is tested before dive
getDragConfigArchFirst(controls, isCanopy) ==
    IF isCanopy THEN DRAG_PARACHUTE
    ELSE IF controls.arch THEN DRAG_ARCH
    ELSE IF controls.dive THEN DRAG_DIVE
    ELSE IF controls.track THEN DRAG_TRACK
    ELSE DRAG_BELLY

getDragConfigForPosition(controls, isCanopy) ==
    IF isCanopy THEN DRAG_PARACHUTE
    ELSE IF controls.dive THEN DRAG_DIVE
    ELSE IF controls.arch THEN DRAG_ARCH
    ELSE IF controls.track THEN DRAG_TRACK
    ELSE DRAG_BELLY

\* a velocity (1/VEL_ONE m/s) as an argument of the force laws (1/SPEED_ONE m/s)
ToSpeed(v) ==
    Vec(Quot(v.x, VEL_ONE \div SPEED_ONE),
        Quot(v.y, VEL_ONE \div SPEED_ONE),
        Quot(v.z, VEL_ONE \div SPEED_ONE))

\* mutant: the canopy interpolation starts from the body position's factor
EffectiveKFromPosition(controls, isCanopy, deploymentFactor) ==
    IF isCanopy
    THEN LET freefallK  == getDragConfigForPosition(controls, FALSE).k
             parachuteK == DRAG_PARACHUTE.k
         IN  freefallK + MulDiv(parachuteK - freefallK, deploymentFactor, DF_ONE)
    ELSE getDragConfigForPosition(controls, FALSE).k

\* lines 106-118: the effective drag factor
EffectiveK(controls, isCanopy, deploymentFactor) ==
    IF isCanopy
    THEN LET freefallK  == DRAG_BELLY.k
             parachuteK == DRAG_PARACHUTE.k
         IN  freefallK + MulDiv(parachuteK - freefallK, deploymentFactor, DF_ONE)
    ELSE getDragConfigForPosition(controls, FALSE).k

\* line 124: rho * speed^2 * k, in force units
DragMagnitude(rho, speed, effectiveK) ==
    MulDiv(MulDiv(speed * speed, rho, RHO_ONE), effectiveK,
           (K_ONE * SPEED_ONE * SPEED_ONE) \div FORCE_ONE)

\* mutant: the drag points along the velocity
DragForceAlongVelocity(altitude, velocity, effectiveK) ==
    LET Drag(rho, sv) ==
            LET DragAt(speed) ==
                    IF speed * 100 > SPEED_ONE
                    THEN LET Along(velNorm, dragMagnitude) ==
                                 Vec(MulDiv(velNorm.x, dragMagnitude, NORM_ONE),
                                     MulDiv(velNorm.y, dragMagnitude, NORM_ONE),
                                     MulDiv(velNorm.z, dragMagnitude, NORM_ONE))
                         IN  Along(normalize(sv), DragMagnitude(rho, speed, effectiveK))
                    ELSE Vec(0, 0, 0)
            IN  DragAt(velocityMagnitude(sv))
    IN  Drag(getAirDensity(altitude), ToSpeed(velocity))

\* lines 120-131: drag, opposing the velocity
DragForce(altitude, velocity, effectiveK) ==
    LET Drag(rho, sv) ==
            LET DragAt(speed) ==
                    IF speed * 100 > SPEED_ONE
                    THEN LET Along(velNorm, dragMagnitude) ==
                                 Vec(-MulDiv(velNorm.x, dragMagnitude, NORM_ONE),
                                     -MulDiv(velNorm.y, dragMagnitude, NORM_ONE),
                                     -MulDiv(velNorm.z, dragMagnitude, NORM_ONE))
                         IN  Along(normalize(sv), DragMagnitude(rho, speed, effectiveK))
                    ELSE Vec(0, 0, 0)
            IN  DragAt(velocityMagnitude(sv))
    IN  Drag(getAirDensity(altitude), ToSpeed(velocity))

\* mutant: the thrust is applied under canopy as well
ThrustForceAnyPhase(controls, isCanopy) ==
    IF controls.track
    THEN Vec(0, 0, -(TRACK_THRUST * FORCE_ONE))
    ELSE Vec(0, 0, 0)

\* lines 133-142: tracking thrust
ThrustForce(controls, isCanopy) ==
    IF ~isCanopy /\ controls.track
    THEN Vec(0, 0, -(TRACK_THRUST * FORCE_ONE))
    ELSE Vec(0, 0, 0)

\* mutant: the deployment factor itself
EffectiveDeploymentRaw(deploymentFactor) ==
    deploymentFactor

\* line 150: 0.3-1.0 mapped to 0-1
EffectiveDeployment(deploymentFactor) ==
    Min(DF_ONE, ((deploymentFactor * 10 - 3 * DF_ONE) * DF_ONE) \div (7 * DF_ONE))

\* mutant: the brakes select the glide descent rate
TargetDescentRateBrakeSlow(controls) ==
    IF controls.flare \/ controls.arch THEN PARACHUTE_GLIDE_DESCENT * VEL_ONE
    ELSE IF controls.dive THEN (PARACHUTE_GLIDE_DESCENT * VEL_ONE * 13) \div 10
    ELSE ((PARACHUTE_GLIDE_DESCENT + PARACHUTE_BRAKE_DESCENT) * VEL_ONE) \div 2

\* lines 152-175: target descent rate, 1/VEL_ONE m/s
TargetDescentRate(controls) ==
    IF controls.flare \/ controls.arch THEN PARACHUTE_BRAKE_DESCENT * VEL_ONE
    ELSE IF controls.dive THEN (PARACHUTE_GLIDE_DESCENT * VEL_ONE * 13) \div 10
    ELSE ((PARACHUTE_GLIDE_DESCENT + PARACHUTE_BRAKE_DESCENT) * VEL_ONE) \div 2

\* lines 152-175: target forward speed, 1/SPEED_ONE m/s
TargetForwardSpeed(controls) ==
    IF controls.flare \/ controls.arch THEN (PARACHUTE_FORWARD_SPEED * SPEED_ONE * 3) \div 10
    ELSE IF controls.dive THEN (PARACHUTE_FORWARD_SPEED * SPEED_ONE * 12) \div 10
    ELSE PARACHUTE_FORWARD_SPEED * SPEED_ONE

\* mutant: the lift law is gated by the deployment factor alone
LiftForceAnyPhase(velocity, controls, isCanopy, deploymentFactor) ==
    IF deploymentFactor * 10 > 3 * DF_ONE
    THEN LET Lift(effectiveDeployment, sv) ==
                 LET LiftAt(currentHorizontalSpeed) ==
                         LET flareLift ==
                                 IF (controls.flare \/ controls.arch)
                                    /\ currentHorizontalSpeed > 5 * SPEED_ONE
                                 THEN MulDiv(MulDiv(FLARE_LIFT_FORCE * FORCE_ONE,
                                                    effectiveDeployment, DF_ONE),
                                             currentHorizontalSpeed, 15 * SPEED_ONE)
                                 ELSE 0
                             currentDescentRate == -velocity.y
                             descentError == TargetDescentRate(controls) - currentDescentRate
                             \* gain 100 N per m/s = 5/6 force units per velocity unit
                             verticalForce ==
                                 MulDiv(descentError, 5 * effectiveDeployment, 6 * DF_ONE)
                             forwardError == TargetForwardSpeed(controls) - currentHorizontalSpeed
                             \* gain 30 N per m/s
                             Drive(y, forwardForce) ==
                                 IF currentHorizontalSpeed * 2 > SPEED_ONE
                                 THEN Vec(MulDiv(MulDiv(sv.x, NORM_ONE, currentHorizontalSpeed),
                                                 forwardForce, NORM_ONE),
                                          y,
                                          MulDiv(MulDiv(sv.z, NORM_ONE, currentHorizontalSpeed),
                                                 forwardForce, NORM_ONE))
                                 ELSE Vec(0, y, -forwardForce)
                         IN  Drive(flareLift + verticalForce,
                                   MulDiv(forwardError * ((30 * FORCE_ONE) \div SPEED_ONE),
                                          effectiveDeployment, DF_ONE))
                 IN  LiftAt(ISqrt(sv.x * sv.x + sv.z * sv.z))
         IN  Lift(EffectiveDeployment(deploymentFactor), ToSpeed(velocity))
    ELSE Vec(0, 0, 0)

\* lines 144-202: canopy lift and drive
LiftForce(velocity, controls, isCanopy, deploymentFactor) ==
    IF isCanopy /\ deploymentFactor * 10 > 3 * DF_ONE
    THEN LET Lift(effectiveDeployment, sv) ==
                 LET LiftAt(currentHorizontalSpeed) ==
                         LET flareLift ==
                                 IF (controls.flare \/ controls.arch)
                                    /\ currentHorizontalSpeed > 5 * SPEED_ONE
                                 THEN MulDiv(MulDiv(FLARE_LIFT_FORCE * FORCE_ONE,
                                                    effectiveDeployment, DF_ONE),
                                             currentHorizontalSpeed, 15 * SPEED_ONE)
                                 ELSE 0
                             currentDescentRate == -velocity.y
                             descentError == TargetDescentRate(controls) - currentDescentRate
                             \* gain 100 N per m/s = 5/6 force units per velocity unit
                             verticalForce ==
                                 MulDiv(descentError, 5 * effectiveDeployment, 6 * DF_ONE)
                             forwardError == TargetForwardSpeed(controls) - currentHorizontalSpeed
                             \* gain 30 N per m/s
                             Drive(y, forwardForce) ==
                                 IF currentHorizontalSpeed * 2 > SPEED_ONE
                                 THEN Vec(MulDiv(MulDiv(sv.x, NORM_ONE, currentHorizontalSpeed),
                                                 forwardForce, NORM_ONE),
                                          y,
                                          MulDiv(MulDiv(sv.z, NORM_ONE, currentHorizontalSpeed),
                                                 forwardForce, NORM_ONE))
                                 ELSE Vec(0, y, -forwardForce)
                         IN  Drive(flareLift + verticalForce,
                                   MulDiv(forwardError * ((30 * FORCE_ONE) \div SPEED_ONE),
                                          effectiveDeployment, DF_ONE))
                 IN  LiftAt(ISqrt(sv.x * sv.x + sv.z * sv.z))
         IN  Lift(EffectiveDeployment(deploymentFactor), ToSpeed(velocity))
    ELSE Vec(0, 0, 0)

\* mutant: the weight is always that of the skydiver without the canopy
calculateForcesSkydiverWeight(position, velocity, controls, isCanopy, deploymentFactor) ==
    LET altitude == Max(0, position.y.m)
        mass == IF isCanopy THEN MASS_WITH_CANOPY ELSE MASS_SKYDIVER
        effectiveK == EffectiveK(controls, isCanopy, deploymentFactor)
        Total(gravityForce, dragForce, thrustForce, liftForce) ==
            [totalForce |->
                 Vec(gravityForce.x + dragForce.x + thrustForce.x + liftForce.x,
                     gravityForce.y + dragForce.y + thrustForce.y + liftForce.y,
                     gravityForce.z + dragForce.z + thrustForce.z + liftForce.z),
             dragForce |-> dragForce,
             gravityForce |-> gravityForce,
             thrustForce |-> thrustForce,
             liftForce |-> liftForce]
    IN  Total(Vec(0, -(MASS_SKYDIVER * GRAVITY), 0),
              DragForce(altitude, velocity, effectiveK),
              ThrustForce(controls, isCanopy),
              LiftForce(velocity, controls, isCanopy, deploymentFactor))

\* lines 263-270: the G-force felt, in 1/G_ONE
calculateForces(position, velocity, controls, isCanopy, deploymentFactor) ==
    LET altitude == Max(0, position.y.m)
        mass == IF isCanopy THEN MASS_WITH_CANOPY ELSE MASS_SKYDIVER
        effectiveK == EffectiveK(controls, isCanopy, deploymentFactor)
        Total(gravityForce, dragForce, thrustForce, liftForce) ==
            [totalForce |->
                 Vec(gravityForce.x + dragForce.x + thrustForce.x + liftForce.x,
                     gravityForce.y + dragForce.y + thrustForce.y + liftForce.y,
                     gravityForce.z + dragForce.z + thrustForce.z + liftForce.z),
             dragForce |-> dragForce,
             gravityForce |-> gravityForce,
             thrustForce |-> thrustForce,
             liftForce |-> liftForce]
    IN  Total(Vec(0, -(mass * GRAVITY), 0),
              DragForce(altitude, velocity, effectiveK),
              ThrustForce(controls, isCanopy),
              LiftForce(velocity, controls, isCanopy, deploymentFactor))

\* lines 263-270: the G-force felt, in 1/G_ONE
GForce(forces, mass) ==
    LET dragMagnitude == velocityMagnitude(forces.dragForce)
        liftMagnitude == Max(0, forces.liftForce.y)
        feltForce == dragMagnitude + liftMagnitude
    IN  ((feltForce \div mass) * G_ONE) \div GRAVITY

\* mutant: explicit Euler, the position advances by the old velocity
physicsStepExplicit(position, velocity, controls, isCanopy, deploymentFactor, dt) ==
    LET mass == IF isCanopy THEN MASS_WITH_CANOPY ELSE MASS_SKYDIVER
        Step(forces, ticks) ==
            LET Advance(acceleration) ==
                    LET Move(newVelocity) ==
                            [position |->
                                 Vec(CoordAdd(position.x, Quot(velocity.x * ticks, DT_UNIT)),
                                     CoordAdd(position.y, Quot(velocity.y * ticks, DT_UNIT)),
                                     CoordAdd(position.z, Quot(velocity.z * ticks, DT_UNIT))),
                             velocity |-> newVelocity,
                             acceleration |-> acceleration,
                             gForce |-> GForce(forces, mass)]
                    IN  Move(Vec(velocity.x + Quot(acceleration.x * ticks, DT_UNIT),
                                 velocity.y + Quot(acceleration.y * ticks, DT_UNIT),
                                 velocity.z + Quot(acceleration.z * ticks, DT_UNIT)))
            IN  Advance(Vec(Quot(forces.totalForce.x, mass),
                            Quot(forces.totalForce.y, mass),
                            Quot(forces.totalForce.z, mass)))
    IN  Step(calculateForces(position, velocity, controls, isCanopy, deploymentFactor),
             Ticks(dt))

physicsStep(position, velocity, controls, isCanopy, deploymentFactor, dt) ==
    LET mass == IF isCanopy THEN MASS_WITH_CANOPY ELSE MASS_SKYDIVER
        Step(forces, ticks) ==
            LET Advance(acceleration) ==
                    LET Move(newVelocity) ==
                            [position |->
                                 Vec(CoordAdd(position.x, Quot(newVelocity.x * ticks, DT_UNIT)),
                                     CoordAdd(position.y, Quot(newVelocity.y * ticks, DT_UNIT)),
                                     CoordAdd(position.z, Quot(newVelocity.z * ticks, DT_UNIT))),
                             velocity |-> newVelocity,
                             acceleration |-> acceleration,
                             gForce |-> GForce(forces, mass)]
                    IN  Move(Vec(velocity.x + Quot(acceleration.x * ticks, DT_UNIT),
                                 velocity.y + Quot(acceleration.y * ticks, DT_UNIT),
                                 velocity.z + Quot(acceleration.z * ticks, DT_UNIT)))
            IN  Advance(Vec(Quot(forces.totalForce.x, mass),
                            Quot(forces.totalForce.y, mass),
                            Quot(forces.totalForce.z, mass)))
    IN  Step(calculateForces(position, velocity, controls, isCanopy, deploymentFactor),
             Ticks(dt))

\* ------------------------------------------------ physics/integration.ts
createAccumulator(position, velocity) ==
    [accumulator |-> DblZero,
     prevPosition |-> position,
     currentPosition |-> position,
     prevVelocity |-> velocity,
     currentVelocity |-> velocity]

\* The step function Player hands to updatePhysics: physicsStep closed over
\* env = [controls, isCanopy, deploymentFactor] of the frame.
StepFn(env, position, velocity, dt) ==
    LET Pick(result) == [position |-> result.position,
                         velocity |-> result.velocity,
                         gForce |-> result.gForce]
    IN  Pick(physicsStep(position, velocity, env.controls, env.isCanopy,
                         env.deploymentFactor, dt))

\* mutant: the previous state is stored after the step instead of before it
LoopBodySnapshotAfter(st, env) ==
    LET Apply(result) ==
            [acc |-> [st.acc EXCEPT !.prevPosition = result.position,
                                    !.prevVelocity = result.velocity,
                                    !.currentPosition = result.position,
                                    !.currentVelocity = result.velocity,
                                    !.accumulator = DblSub(@, PHYSICS_DT)],
             steps |-> st.steps + 1,
             calls |-> Append(st.calls, [position |-> st.acc.currentPosition,
                                         velocity |-> st.acc.currentVelocity,
                                         dt |-> PHYSICS_DT,
                                         residual |-> st.acc.accumulator,
                                         result |-> result])]
    IN  Apply(StepFn(env, st.acc.currentPosition, st.acc.currentVelocity, PHYSICS_DT))

\* One iteration of the while loop of updatePhysics.  st = [acc, steps, calls];
\* calls records every invocation of the step function: its arguments, the
\* residual at the time and its result.
LoopBody(st, env) ==
    LET Store(stored) ==
            LET Apply(result) ==
                    [acc |-> [stored EXCEPT !.currentPosition = result.position,
                                            !.currentVelocity = result.velocity,
                                            !.accumulator = DblSub(@, PHYSICS_DT)],
                     steps |-> st.steps + 1,
                     calls |-> Append(st.calls, [position |-> stored.currentPosition,
                                                 velocity |-> stored.currentVelocity,
                                                 dt |-> PHYSICS_DT,
                                                 residual |-> stored.accumulator,
                                                 result |-> result])]
            IN  Apply(StepFn(env, stored.currentPosition, stored.currentVelocity, PHYSICS_DT))
    IN  Store([st.acc EXCEPT !.prevPosition = st.acc.currentPosition,
                             !.prevVelocity = st.acc.currentVelocity])

\* mutant: the loop stops one comparison early (> for >=)
LoopConditionStrict(a) == DblLess(PHYSICS_DT, a.accumulator)

LoopCondition(a) == DblLeq(PHYSICS_DT, a.accumulator)

RECURSIVE WhileLoop(_, _)
WhileLoop(st, env) ==
    IF LoopCondition(st.acc) THEN WhileLoop(LoopBody(st, env), env) ELSE st

\* mutant: a frame too short for a step leaves the residual as it was
updatePhysicsDropsShortFrame(accumulator, frameDelta, env) ==
    LET clampedDelta == DblMin(frameDelta, MAX_FRAME_DELTA)
        Run(sum) ==
            IF DblLess(sum, PHYSICS_DT)
            THEN [acc |-> accumulator, steps |-> 0, calls |-> <<>>]
            ELSE WhileLoop([acc |-> [accumulator EXCEPT !.accumulator = sum],
                            steps |-> 0,
                            calls |-> <<>>], env)
    IN  Run(DblAdd(accumulator.accumulator, clampedDelta))

\* mutant: the frame delta is not clamped
updatePhysicsNoClamp(accumulator, frameDelta, env) ==
    WhileLoop([acc |-> [accumulator EXCEPT !.accumulator = DblAdd(@, frameDelta)],
               steps |-> 0,
               calls |-> <<>>], env)

\* The result is [acc, steps, calls]: the accumulator as the call leaves it,
\* the number it returns, the step function's invocations.
updatePhysics(accumulator, frameDelta, env) ==
    LET clampedDelta == DblMin(frameDelta, MAX_FRAME_DELTA)
    IN  WhileLoop([acc |-> [accumulator EXCEPT !.accumulator = DblAdd(@, clampedDelta)],
                   steps |-> 0,
                   calls |-> <<>>], env)

\* mutant: interpolates from the wrong end
lerpFromCurrent(a, b, t) == b + MulDiv(b - a, t, ALPHA_ONE)

lerp(a, b, t) == a + MulDiv(b - a, t, ALPHA_ONE)

\* lerp on a position coordinate
lerpCoord(a, b, t) == CoordAdd(a, MulDiv(CoordDiff(b, a), t, ALPHA_ONE))

\* the largest k in lo..hi with k * den <= num
RECURSIVE QuotientSearch(_, _, _, _)
QuotientSearch(num, den, lo, hi) ==
    IF lo = hi THEN lo
    ELSE IF DblLeq(DblTimes(den, (lo + hi + 1) \div 2), num)
         THEN QuotientSearch(num, den, (lo + hi + 1) \div 2, hi)
         ELSE QuotientSearch(num, den, lo, (lo + hi + 1) \div 2 - 1)

\* accumulator / PHYSICS_DT, in 1/ALPHA_ONE
InterpolationAlpha(accumulator) ==
    QuotientSearch(DblTimes(accumulator.accumulator, ALPHA_ONE), PHYSICS_DT, 0, 2 * ALPHA_ONE)

getInterpolatedPosition(accumulator) ==
    LET alpha == InterpolationAlpha(accumulator)
    IN  Vec(lerpCoord(accumulator.prevPosition.x, accumulator.currentPosition.x, alpha),
            lerpCoord(accumulator.prevPosition.y, accumulator.currentPosition.y, alpha),
            lerpCoord(accumulator.prevPosition.z, accumulator.currentPosition.z, alpha))

getInterpolatedVelocity(accumulator) ==
    LET alpha == InterpolationAlpha(accumulator)
    IN  Vec(lerp(accumulator.prevVelocity.x, accumulator.currentVelocity.x, alpha),
            lerp(accumulator.prevVelocity.y, accumulator.currentVelocity.y, alpha),
            lerp(accumulator.prevVelocity.z, accumulator.currentVelocity.z, alpha))

\* ------------------------------------------------------------------ state
VARIABLES
    acc,        \* the PhysicsAccumulator (Player's accumulatorRef.current)
    env,        \* [controls, isCanopy, deploymentFactor] of the last frame
    last,       \* the last updatePhysics call: [delta, pre, steps, calls]
    frames,     \* number of updatePhysics calls so far
    sumSteps,   \* sum of the step counts the calls returned
    sumCalls,   \* number of invocations of the step function
    sumTime,    \* exact sum of the frame deltas, each clamped to MAX_FRAME_DELTA
    pin,        \* physicsStep run: the inputs drawn
    pcur,       \* physicsStep run: current [position, velocity]
    pres,       \* physicsStep run: the last step, [position, velocity, forces, result]
    pn,         \* physicsStep run: number of steps applied
    pfree,      \* physicsStep run: drag, thrust and lift were zero in every step so far
    acceleration,   \* useGameStore: the G-force published by the last frame, 1/G_ONE
    nin,        \* normalize run: the vector drawn, 1/SPEED_ONE
    nout,       \* normalize run: the result, 1/NORM_ONE
    ndone,      \* normalize run: normalize has been applied
    elapsedTime,            \* canopy run: state.clock.elapsedTime, ms
    phase,                  \* canopy run: the game phase
    deploymentStartTimeRef, \* canopy run: Player's ref, ms, 0 = not set
    deploymentFactorRef,    \* canopy run: Player's ref, 1/DF_ONE
    turn,                   \* canopy run: the last calculateTurnRate call
    cframes,                \* canopy run: number of frames so far
    lin,        \* classifyLanding run: the vertical speed drawn, 1/VEL_ONE
    lout,       \* classifyLanding run: the result
    ldone,      \* classifyLanding run: classifyLanding has been applied
    body,               \* game: the Rapier body as Player set it, [position, velocity]
    altitude,           \* game: useGameStore altitude, a coordinate
    landingQuality,     \* game: useGameStore landingQuality, "null" for null
    score,              \* game: useGameStore score, 1/SCORE_ONE m
    telemetry,          \* game: useGameStore telemetry, sequence of [time, phase, at]
    telemetryEnabled,   \* game: useGameStore telemetryEnabled
    jumpStartTime,      \* game: useGameStore jumpStartTime, ms
    action,             \* game: controls.action, the Space key held
    clockOrigin,        \* game: performance.now() at the start of state.clock, ms
    hist,               \* game: what the last actions did, for the properties
    gframes             \* game: number of frames so far

vars == <<acc, env, last, frames, sumSteps, sumCalls, sumTime, pin, pcur, pres, pn, pfree,
          acceleration, nin, nout, ndone, elapsedTime, phase, deploymentStartTimeRef,
          deploymentFactorRef, turn, cframes, lin, lout, ldone, body, altitude,
          landingQuality, score, telemetry, telemetryEnabled, jumpStartTime, action,
          clockOrigin, hist, gframes>>

intVars == <<acc, env, last, frames, sumSteps, sumCalls, sumTime, acceleration>>

stepVars == <<pin, pcur, pres, pn, pfree>>

normVars == <<nin, nout, ndone>>

canopyVars == <<elapsedTime, phase, deploymentStartTimeRef, deploymentFactorRef, turn, cframes>>

landVars == <<lin, lout, ldone>>

gameVars == <<body, altitude, landingQuality, score, telemetry, telemetryEnabled,
              jumpStartTime, action, clockOrigin, hist, gframes>>

\* ----------------------------------------------------------------- bounds
MaxFrames == 3
MaxSteps == 3

NoControls == Controls(FALSE, FALSE, FALSE, FALSE, FALSE, FALSE)

\* Player: the aircraft exit point, at rest (READY) and with the exit velocity
JumpPosition == Vec(Metres(0), Metres(JUMP_ALTITUDE), Metres(0))

ExitVelocity == Vec(0, -(5 * VEL_ONE), -(10 * VEL_ONE))

StartStates ==
    { [position |-> JumpPosition, velocity |-> ZeroVel],
      [position |-> JumpPosition, velocity |-> ExitVelocity] }

\* frame deltas: 1/240 s (half a step), the double just below 1/120, 1/60 s
\* (two steps), the ceiling 0.1 s, and 0.125 s beyond it
FrameDeltas ==
    { Dbl(4369, 69905, 69905), Dbl(8738, 139810, 139808), Dbl(17476, 279620, 279620),
      MAX_FRAME_DELTA, Dbl(131072, 0, 0) }

\* what Player's getPhysicsControls and deployment update can hand to a frame
FrameEnvs ==
    { [controls |-> Controls(FALSE, FALSE, TRUE, FALSE, TRUE, FALSE),
       isCanopy |-> FALSE, deploymentFactor |-> 0],
      [controls |-> Controls(FALSE, TRUE, FALSE, TRUE, FALSE, TRUE),
       isCanopy |-> TRUE, deploymentFactor |-> DF_ONE] }

NoCall(a) == [delta |-> DblZero, pre |-> a, steps |-> 0, calls |-> <<>>]

NoStep == [position |-> JumpPosition, velocity |-> ZeroVel,
           forces |-> calculateForces(JumpPosition, ZeroVel, NoControls, FALSE, 0),
           result |-> physicsStep(JumpPosition, ZeroVel, NoControls, FALSE, 0, PHYSICS_DT)]

IntIdle ==
    /\ acc = createAccumulator(JumpPosition, ZeroVel)
    /\ env = [controls |-> NoControls, isCanopy |-> FALSE, deploymentFactor |-> 0]
    /\ last = NoCall(acc)
    /\ frames = 0
    /\ sumSteps = 0
    /\ sumCalls = 0
    /\ sumTime = DblZero
    /\ acceleration = 0

StepIdle ==
    /\ pin = [position |-> JumpPosition, velocity |-> ZeroVel, controls |-> NoControls,
              isCanopy |-> FALSE, deploymentFactor |-> 0]
    /\ pcur = [position |-> JumpPosition, velocity |-> ZeroVel]
    /\ pres = NoStep
    /\ pn = 0
    /\ pfree = TRUE

NormIdle ==
    /\ nin = Vec(0, 0, 0)
    /\ nout = Vec(0, 0, 0)
    /\ ndone = FALSE

NoTurn == [called |-> FALSE, controls |-> NoControls, deploymentFactor |-> 0, rate |-> 0]

CanopyIdle ==
    /\ elapsedTime = 0
    /\ phase = "FREEFALL"
    /\ deploymentStartTimeRef = 0
    /\ deploymentFactorRef = 0
    /\ turn = NoTurn
    /\ cframes = 0

LandIdle ==
    /\ lin = 0
    /\ lout = "perfect"
    /\ ldone = FALSE

\* no physics step since the jump, no canopy frame, no ground contact
NoFirstStep == [done |-> FALSE, position |-> JumpPosition, velocity |-> ZeroVel]

NoCanopyFrame == [frames |-> 0, time |-> 0, prev |-> 0]

NoContact == [position |-> JumpPosition, velocity |-> ZeroVel]

\* nothing observed yet
NoHist ==
    [jumps |-> 0, toggles |-> 0, jumpInstant |-> 0,
     firstStep |-> NoFirstStep, canopy |-> NoCanopyFrame, contact |-> NoContact]

GameIdle ==
    /\ body = [position |-> JumpPosition, velocity |-> ZeroVel]
    /\ altitude = Metres(JUMP_ALTITUDE)
    /\ landingQuality = "null"
    /\ score = 0
    /\ telemetry = <<>>
    /\ telemetryEnabled = FALSE
    /\ jumpStartTime = 0
    /\ action = FALSE
    /\ clockOrigin = 0
    /\ hist = NoHist
    /\ gframes = 0

\* ------------------------------------------- the integrator, frame by frame
Init ==
    /\ \E s \in StartStates: acc = createAccumulator(s.position, s.velocity)
    /\ env = [controls |-> NoControls, isCanopy |-> FALSE, deploymentFactor |-> 0]
    /\ last = NoCall(acc)
    /\ frames = 0
    /\ sumSteps = 0
    /\ sumCalls = 0
    /\ sumTime = DblZero
    /\ acceleration = 0
    /\ StepIdle
    /\ NormIdle
    /\ CanopyIdle
    /\ LandIdle
    /\ GameIdle

\* Player useFrame, lines 170-171 and 186-188: the G-forces of the steps, summed
RECURSIVE totalGForce(_)
totalGForce(calls) ==
    IF calls = <<>> THEN 0 ELSE Head(calls).result.gForce + totalGForce(Tail(calls))

\* mutant: the G-force of the last step of the frame
lastGForce(calls) ==
    IF Len(calls) > 0 THEN calls[Len(calls)].result.gForce ELSE 0

\* Player useFrame, lines 264-266: the G-force the frame publishes
avgGForce(calls) ==
    IF Len(calls) > 0 THEN totalGForce(calls) \div Len(calls) ELSE 0

\* Player useFrame, lines 169-195 and 264-266: one call of updatePhysics and
\* the publication of the frame's G-force
Frame(delta, e) ==
    /\ frames < MaxFrames
    /\ LET Ran(r) ==
               /\ acc' = r.acc
               /\ last' = [delta |-> delta, pre |-> acc, steps |-> r.steps, calls |-> r.calls]
               /\ sumSteps' = sumSteps + r.steps
               /\ sumCalls' = sumCalls + Len(r.calls)
               /\ acceleration' = avgGForce(r.calls)
       IN  Ran(updatePhysics(acc, delta, e))
    /\ env' = e
    /\ frames' = frames + 1
    /\ sumTime' = DblSum(sumTime, DblMin(delta, MAX_FRAME_DELTA))
    /\ UNCHANGED <<stepVars, normVars, canopyVars, landVars, gameVars>>

Next == \E delta \in FrameDeltas, e \in FrameEnvs: Frame(delta, e)

Spec == Init /\ [][Next]_vars

\* ------------------------------------------ physicsStep on its own, step by step
BoolSet == {FALSE, TRUE}

AllControls ==
    { Controls(d, a, l, r, t, f) : d \in BoolSet, a \in BoolSet, l \in BoolSet,
                                   r \in BoolSet, t \in BoolSet, f \in BoolSet }

\* the exit altitude, near the ground, and beyond the atmosphere of the model
\* (the air density is 0 there)
StepPositions ==
    { JumpPosition, Vec(Metres(0), Metres(100), Metres(0)),
      Vec(Metres(0), Metres(800 * SCALE_HEIGHT), Metres(0)) }

\* at rest, the exit velocity, near terminal velocity, canopy flight, and
\* 0.01 m/s, the speed up to which the drag is switched off
StepVelocities ==
    { ZeroVel, ExitVelocity, Vec(0, -(50 * VEL_ONE), 0),
      Vec(3 * VEL_ONE, -(4 * VEL_ONE), -(12 * VEL_ONE)),
      Vec(0, -(VEL_ONE \div 100), 0) }

\* [isCanopy, deploymentFactor]; calculateForces defaults the factor to 1.0,
\* in freefall as well
StepPhases ==
    { <<FALSE, 0>>, <<FALSE, DF_ONE>>, <<TRUE, 0>>, <<TRUE, (3 * DF_ONE) \div 10>>,
      <<TRUE, (4 * DF_ONE) \div 10>>, <<TRUE, DF_ONE>> }

ZeroForce == Vec(0, 0, 0)

InitStep ==
    /\ IntIdle
    /\ \E p \in StepPositions, v \in StepVelocities, c \in AllControls, ph \in StepPhases:
          /\ pin = [position |-> p, velocity |-> v, controls |-> c,
                    isCanopy |-> ph[1], deploymentFactor |-> ph[2]]
          /\ pcur = [position |-> p, velocity |-> v]
    /\ pres = NoStep
    /\ pn = 0
    /\ pfree = TRUE
    /\ NormIdle
    /\ CanopyIdle
    /\ LandIdle
    /\ GameIdle

\* one call of physicsStep at the fixed timestep, continuing from its own result
StepOnce ==
    /\ pn < MaxSteps
    /\ LET Took(forces, result) ==
               /\ pres' = [position |-> pcur.position, velocity |-> pcur.velocity,
                           forces |-> forces, result |-> result]
               /\ pcur' = [position |-> result.position, velocity |-> result.velocity]
               /\ pfree' = (pfree /\ forces.dragForce = ZeroForce
                                  /\ forces.thrustForce = ZeroForce
                                  /\ forces.liftForce = ZeroForce)
       IN  Took(calculateForces(pcur.position, pcur.velocity, pin.controls,
                                pin.isCanopy, pin.deploymentFactor),
                physicsStep(pcur.position, pcur.velocity, pin.controls,
                            pin.isCanopy, pin.deploymentFactor, PHYSICS_DT))
    /\ pn' = pn + 1
    /\ UNCHANGED <<pin, intVars, normVars, canopyVars, landVars, gameVars>>

NextStep == StepOnce

SpecStep == InitStep /\ [][NextStep]_vars

\* ======================================================== the integrator
\* C1: after every call of updatePhysics with a non-negative frame delta, on an
\* accumulator made by createAccumulator, the residual is in [0, PHYSICS_DT).
C1_ResidualInRange ==
    /\ DblLeq(DblZero, acc.accumulator)
    /\ DblLess(acc.accumulator, PHYSICS_DT)

\* a call that started with a residual, executed steps and left a residual
C1_Witness ==
    /\ frames > 1
    /\ last.steps > 0
    /\ DblLess(DblZero, last.pre.accumulator)
    /\ DblLess(DblZero, acc.accumulator)

\* C2: over any sequence of calls the step counts returned sum to
\* floor(T / PHYSICS_DT), T the sum of the clamped frame deltas, and the step
\* function is invoked exactly that many times.
C2_StepsMatchTime ==
    /\ DblLeq(DblTimes(PHYSICS_DT, sumSteps), sumTime)
    /\ DblLess(sumTime, DblTimes(PHYSICS_DT, sumSteps + 1))
    /\ sumCalls = sumSteps

\* C3: a frame delta beyond MAX_FRAME_DELTA acts exactly as MAX_FRAME_DELTA: the
\* residual the loop starts from is the carried one plus MAX_FRAME_DELTA, and the
\* accumulator, the step count and the step function's invocations are those
\* of a call with MAX_FRAME_DELTA, so no later call can see the excess.
C3_ClampDiscardsExcess ==
    (frames > 0 /\ DblLess(MAX_FRAME_DELTA, last.delta)) =>
        LET Same(r) == /\ acc = r.acc
                       /\ last.steps = r.steps
                       /\ last.calls = r.calls
        IN  /\ last.steps > 0
            /\ last.calls[1].residual = DblAdd(last.pre.accumulator, MAX_FRAME_DELTA)
            /\ Same(updatePhysics(last.pre, MAX_FRAME_DELTA, env))

\* a delta beyond the ceiling arriving on a residual
C3_Witness ==
    /\ frames > 1
    /\ DblLess(MAX_FRAME_DELTA, last.delta)
    /\ DblLess(DblZero, last.pre.accumulator)

\* C4: one call executes at most MAX_FRAME_DELTA / PHYSICS_DT = 12 steps, whatever
\* the frame delta and the residual carried in.
C4_StepsPerCallBounded ==
    /\ QuotientSearch(MAX_FRAME_DELTA, PHYSICS_DT, 0, 64) = 12
    /\ last.steps <= 12
    /\ Len(last.calls) <= 12

\* C6: every step stores the current state as the previous one, invokes the
\* step function at exactly PHYSICS_DT on the current state, makes its result
\* the current state and takes PHYSICS_DT off the residual; after a call with
\* at least one step the previous state is the one the last step started from.
C6_StepOrder ==
    LET n == last.steps
        calls == last.calls
        clamped == DblMin(last.delta, MAX_FRAME_DELTA)
    IN  frames > 0 =>
        /\ Len(calls) = n
        /\ \A i \in 1..n:
              /\ calls[i].dt = PHYSICS_DT
              /\ calls[i].position =
                     IF i = 1 THEN last.pre.currentPosition ELSE calls[i - 1].result.position
              /\ calls[i].velocity =
                     IF i = 1 THEN last.pre.currentVelocity ELSE calls[i - 1].result.velocity
              /\ calls[i].residual =
                     IF i = 1 THEN DblAdd(last.pre.accumulator, clamped)
                              ELSE DblSub(calls[i - 1].residual, PHYSICS_DT)
        /\ n > 0 =>
              /\ acc.prevPosition = calls[n].position
              /\ acc.prevVelocity = calls[n].velocity
              /\ acc.currentPosition = calls[n].result.position
              /\ acc.currentVelocity = calls[n].result.velocity
              /\ acc.accumulator = DblSub(calls[n].residual, PHYSICS_DT)
        /\ n = 0 =>
              /\ acc.prevPosition = last.pre.prevPosition
              /\ acc.currentPosition = last.pre.currentPosition
              /\ acc.accumulator = DblAdd(last.pre.accumulator, clamped)

\* a call of several steps whose last step changed the state
C6_Witness ==
    /\ frames > 0
    /\ last.steps > 1
    /\ acc.prevPosition # acc.currentPosition
    /\ acc.prevVelocity # acc.currentVelocity
    /\ acc.prevPosition # last.pre.currentPosition

\* C7: the interpolation factor residual / PHYSICS_DT is in [0, 1); every
\* component of the interpolated position and velocity lies between the
\* previous and the current one, and is the previous one at residual 0.
C7_InterpolationBetween ==
    LET alpha == InterpolationAlpha(acc)
        Between(lo, v, hi) == (lo <= v /\ v <= hi) \/ (hi <= v /\ v <= lo)
        CoordBetween(lo, v, hi) ==
            \/ CoordLeq(lo, v) /\ CoordLeq(v, hi)
            \/ CoordLeq(hi, v) /\ CoordLeq(v, lo)
        Inside(p, v) ==
            \A c \in {"x", "y", "z"}:
               /\ CoordBetween(acc.prevPosition[c], p[c], acc.currentPosition[c])
               /\ Between(acc.prevVelocity[c], v[c], acc.currentVelocity[c])
               /\ acc.accumulator = DblZero =>
                     (p[c] = acc.prevPosition[c] /\ v[c] = acc.prevVelocity[c])
    IN  /\ 0 <= alpha
        /\ alpha < ALPHA_ONE
        /\ Inside(getInterpolatedPosition(acc), getInterpolatedVelocity(acc))

\* a residual strictly inside a step: the interpolated state is strictly
\* between two different snapshots
C7_Witness ==
    /\ frames > 0
    /\ DblLess(DblZero, acc.accumulator)
    /\ acc.prevVelocity.y # acc.currentVelocity.y
    /\ getInterpolatedVelocity(acc).y # acc.prevVelocity.y
    /\ getInterpolatedVelocity(acc).y # acc.currentVelocity.y
    /\ getInterpolatedPosition(acc).y # acc.prevPosition.y
    /\ getInterpolatedPosition(acc).y # acc.currentPosition.y

\* ======================================================== the physics step
\* C8: physicsStep is semi-implicit Euler: the returned velocity is
\* velocity + (totalForce / mass) * dt with totalForce = gravity + drag +
\* thrust + lift, and the returned position is position + the returned
\* velocity * dt.
C8_SemiImplicitEuler ==
    LET mass == IF pin.isCanopy THEN MASS_WITH_CANOPY ELSE MASS_SKYDIVER
        f == pres.forces
        ticks == Ticks(PHYSICS_DT)
    IN  pn > 0 =>
        /\ f.gravityForce = Vec(0, -(mass * GRAVITY), 0)
        /\ \A c \in {"x", "y", "z"}:
              /\ f.totalForce[c] =
                     f.gravityForce[c] + f.dragForce[c] + f.thrustForce[c] + f.liftForce[c]
              /\ pres.result.acceleration[c] = Quot(f.totalForce[c], mass)
              /\ pres.result.velocity[c] =
                     pres.velocity[c] + Quot(Quot(f.totalForce[c], mass) * ticks, DT_UNIT)
              /\ pres.result.position[c] =
                     CoordAdd(pres.position[c], Quot(pres.result.velocity[c] * ticks, DT_UNIT))

\* a step under all four forces in which the old and the new velocity move
\* the position to different places
C8_Witness ==
    /\ pn > 0
    /\ pres.forces.dragForce # ZeroForce
    /\ pres.forces.liftForce # ZeroForce
    /\ pres.velocity # ZeroVel
    /\ pres.result.velocity.y # pres.velocity.y
    /\ pres.result.position.y #
           CoordAdd(pres.position.y, Quot(pres.velocity.y * Ticks(PHYSICS_DT), DT_UNIT))

C10_DragPrecedence ==
    LET c == pin.controls
        chosen == getDragConfigForPosition(c, FALSE)
    IN  /\ c.dive => chosen = DRAG_DIVE
        /\ (~c.dive /\ c.arch) => chosen = DRAG_ARCH
        /\ (~c.dive /\ ~c.arch /\ c.track) => chosen = DRAG_TRACK
        /\ (~c.dive /\ ~c.arch /\ ~c.track) => chosen = DRAG_BELLY
        /\ \A l \in BoolSet, r \in BoolSet, f \in BoolSet:
              getDragConfigForPosition(Controls(c.dive, c.arch, l, r, c.track, f), FALSE)
                  = chosen
        /\ getDragConfigForPosition(c, TRUE) = DRAG_PARACHUTE
        /\ (pn > 0 /\ ~pin.isCanopy) =>
              pres.forces.dragForce =
                  DragForce(Max(0, pres.position.y.m), pres.velocity,
                            IF c.dive THEN DRAG_DIVE.k
                            ELSE IF c.arch THEN DRAG_ARCH.k
                            ELSE IF c.track THEN DRAG_TRACK.k
                            ELSE DRAG_BELLY.k)

\* a freefall step with dive, arch and track all held: drag is the dive's
C10_Witness ==
    /\ pn > 0
    /\ ~pin.isCanopy
    /\ pin.controls.dive /\ pin.controls.arch /\ pin.controls.track
    /\ pres.forces.dragForce # ZeroForce

\* ------------------------------------------------- normalize on its own
MaxNorm == 2

\* the scales of the vectors drawn: 1/200 m/s and 1 m/s per unit
NormScales == {1, SPEED_ONE}

InitNorm ==
    /\ IntIdle
    /\ StepIdle
    /\ CanopyIdle
    /\ LandIdle
    /\ GameIdle
    /\ \E i \in -MaxNorm..MaxNorm, j \in -MaxNorm..MaxNorm, l \in -MaxNorm..MaxNorm,
          k \in NormScales: nin = Vec(i * k, j * k, l * k)
    /\ nout = Vec(0, 0, 0)
    /\ ndone = FALSE

\* one call of normalize
Normalize ==
    /\ ~ndone
    /\ nout' = normalize(nin)
    /\ ndone' = TRUE
    /\ UNCHANGED <<nin, intVars, stepVars, canopyVars, landVars, gameVars>>

NextNorm == Normalize

SpecNorm == InitNorm /\ [][NextNorm]_vars

\* --------------------------------------------- classifyLanding on its own
\* mutant: the buckets are closed above, exactly 3, 5 and 8 fall into the
\* lower-severity bucket
classifyLandingClosed(verticalSpeed) ==
    LET absSpeed == Abs(verticalSpeed)
    IN  IF absSpeed <= 3 * VEL_ONE THEN "perfect"
        ELSE IF absSpeed <= 5 * VEL_ONE THEN "good"
        ELSE IF absSpeed <= 8 * VEL_ONE THEN "hard"
        ELSE "crash"

\* simulation.ts 299-305; the speed in 1/VEL_ONE m/s
classifyLanding(verticalSpeed) ==
    LET absSpeed == Abs(verticalSpeed)
    IN  IF absSpeed < 3 * VEL_ONE THEN "perfect"
        ELSE IF absSpeed < 5 * VEL_ONE THEN "good"
        ELSE IF absSpeed < 8 * VEL_ONE THEN "hard"
        ELSE "crash"

\* vertical speeds are drawn on a grid of 0.1 m/s up to MaxLandingSpeed / 10
\* m/s, both signs, and one unit to either side of each grid point
MaxLandingSpeed == 100

LandingSpeeds ==
    { k * (VEL_ONE \div 10) + o : k \in -MaxLandingSpeed..MaxLandingSpeed, o \in {-1, 0, 1} }

InitLanding ==
    /\ IntIdle
    /\ StepIdle
    /\ NormIdle
    /\ CanopyIdle
    /\ GameIdle
    /\ lin \in LandingSpeeds
    /\ lout = "perfect"
    /\ ldone = FALSE

\* one call of classifyLanding
Classify ==
    /\ ~ldone
    /\ lout' = classifyLanding(lin)
    /\ ldone' = TRUE
    /\ UNCHANGED <<lin, intVars, stepVars, normVars, canopyVars, gameVars>>

NextLanding == Classify

SpecLanding == InitLanding /\ [][NextLanding]_vars

\* ------------------------------------- canopy deployment and turning
\* milliseconds in a second: the unit of the clock of the canopy run
TIME_ONE == 1000
\* CANOPY_TURN_RATE = 0.8 rad/s in 1/TURN_ONE; a turn rate is in
\* 1/(TURN_ONE * DF_ONE) rad/s
TURN_ONE == 10
CANOPY_TURN_RATE == 8
DEPLOYMENT_DURATION == 4 * TIME_ONE
DEPLOYMENT_SIGMOID_CENTER == 2 * TIME_ONE
DEPLOYMENT_SIGMOID_STEEPNESS == 3

\* Math.exp(-x) for every x >= 0, 1/EXP_ONE: exp(-x) = exp(-(x - 1)) * exp(-1)
RECURSIVE ExpNegWide(_)
ExpNegWide(x) ==
    IF x <= EXP_ONE \/ x >= 750 * EXP_ONE THEN ExpNeg(x)
    ELSE MulDiv(ExpNegWide(x - EXP_ONE), 3679, EXP_ONE)

\* useControls.ts 325-328: 1 / (1 + exp(-steepness * (t - center))), t in ms
getDeploymentFactor(t) ==
    LET Sigmoid(e) ==
            IF t >= DEPLOYMENT_SIGMOID_CENTER
            THEN (DF_ONE * EXP_ONE) \div (EXP_ONE + e)
            ELSE (DF_ONE * e) \div (EXP_ONE + e)
    IN  Sigmoid(ExpNegWide((DEPLOYMENT_SIGMOID_STEEPNESS * Abs(t - DEPLOYMENT_SIGMOID_CENTER)
                            * EXP_ONE) \div TIME_ONE))

\* mutant: turning is enabled from deployment factor 0.3 on
calculateTurnRateEarly(controls, deploymentFactor) ==
    IF deploymentFactor * 10 < 3 * DF_ONE THEN 0
    ELSE LET turnInput == IF controls.right THEN -1 ELSE IF controls.left THEN 1 ELSE 0
         IN  turnInput * CANOPY_TURN_RATE * deploymentFactor

\* simulation.ts 310-321; right is tested last and overrides left
calculateTurnRate(controls, deploymentFactor) ==
    IF deploymentFactor * 2 < DF_ONE THEN 0
    ELSE LET turnInput == IF controls.right THEN -1 ELSE IF controls.left THEN 1 ELSE 0
         IN  turnInput * CANOPY_TURN_RATE * deploymentFactor

MaxCanopyFrames == 5

\* the clock when the canopy run starts, in freefall
ClockStart == 10 * TIME_ONE

\* the advances of the clock between frames, ms
ClockDeltas == {250, 1750, 2 * TIME_ONE}

TurnControls == { Controls(FALSE, FALSE, l, r, FALSE, FALSE) : l \in BoolSet, r \in BoolSet }

InitCanopy ==
    /\ IntIdle
    /\ StepIdle
    /\ NormIdle
    /\ LandIdle
    /\ GameIdle
    /\ elapsedTime = ClockStart
    /\ phase = "FREEFALL"
    /\ deploymentStartTimeRef = 0
    /\ deploymentFactorRef = 0
    /\ turn = NoTurn
    /\ cframes = 0

\* Player useEffect, lines 72-77: deployChute
DeployChute ==
    /\ phase = "FREEFALL"
    /\ phase' = "CANOPY"
    /\ deploymentStartTimeRef' = 0
    /\ UNCHANGED <<elapsedTime, deploymentFactorRef, turn, cframes, intVars, stepVars, normVars,
                 landVars, gameVars>>

\* frames are counted up to MaxCanopyFrames; a deployment under way when the
\* count is reached still gets its frames until DEPLOYMENT_DURATION has passed
FrameAllowed ==
    \/ cframes < MaxCanopyFrames
    \/ /\ phase = "CANOPY"
       /\ \/ deploymentStartTimeRef = 0
          \/ elapsedTime - deploymentStartTimeRef <= DEPLOYMENT_DURATION

\* mutant: the factor is not set to 1 after DEPLOYMENT_DURATION
CanopyFrameNoClamp(dt, controls, stepped) ==
    /\ FrameAllowed
    /\ elapsedTime' = elapsedTime + dt
    /\ LET isCanopy == phase = "CANOPY"
           Update(start) ==
               LET deploymentTime == elapsedTime' - start
                   Turn(factor) ==
                       /\ deploymentFactorRef' = factor
                       /\ turn' = IF stepped /\ isCanopy
                                  THEN [called |-> TRUE, controls |-> controls,
                                        deploymentFactor |-> factor,
                                        rate |-> calculateTurnRate(controls, factor)]
                                  ELSE NoTurn
               IN  /\ deploymentStartTimeRef' = start
                   /\ Turn(IF isCanopy
                           THEN getDeploymentFactor(deploymentTime)
                           ELSE 0)
       IN  Update(IF isCanopy /\ deploymentStartTimeRef = 0
                  THEN elapsedTime' ELSE deploymentStartTimeRef)
    /\ cframes' = Min(cframes + 1, MaxCanopyFrames)
    /\ UNCHANGED <<phase, intVars, stepVars, normVars, landVars, gameVars>>

\* Player useFrame, lines 138-152 and 225-227: the deployment factor of the
\* frame and, if the frame executed a step under canopy, the turn rate
CanopyFrame(dt, controls, stepped) ==
    /\ FrameAllowed
    /\ elapsedTime' = elapsedTime + dt
    /\ LET isCanopy == phase = "CANOPY"
           Update(start) ==
               LET deploymentTime == elapsedTime' - start
                   Turn(factor) ==
                       /\ deploymentFactorRef' = factor
                       /\ turn' = IF stepped /\ isCanopy
                                  THEN [called |-> TRUE, controls |-> controls,
                                        deploymentFactor |-> factor,
                                        rate |-> calculateTurnRate(controls, factor)]
                                  ELSE NoTurn
               IN  /\ deploymentStartTimeRef' = start
                   /\ Turn(IF isCanopy
                           THEN IF deploymentTime > DEPLOYMENT_DURATION THEN DF_ONE
                                ELSE getDeploymentFactor(deploymentTime)
                           ELSE 0)
       IN  Update(IF isCanopy /\ deploymentStartTimeRef = 0
                  THEN elapsedTime' ELSE deploymentStartTimeRef)
    /\ cframes' = Min(cframes + 1, MaxCanopyFrames)
    /\ UNCHANGED <<phase, intVars, stepVars, normVars, landVars, gameVars>>

NextCanopy ==
    \/ DeployChute
    \/ \E dt \in ClockDeltas, c \in TurnControls, stepped \in BoolSet:
           CanopyFrame(dt, c, stepped)

SpecCanopy == InitCanopy /\ [][NextCanopy]_vars

\* a step of CanopyFrame, seen by its guard and its clock advance alone: the
\* steps of SpecCanopy that advance the clock are the CanopyFrame steps
FrameRuns ==
    /\ FrameAllowed
    /\ elapsedTime' \in {elapsedTime + dt : dt \in ClockDeltas}

\* the render loop keeps calling useFrame: a frame that can run, runs
SpecCanopyLive == SpecCanopy /\ WF_elapsedTime(FrameRuns)

\* --------------------------------------------- the game, frame by frame
\* Player, GameOverScreen, TelemetryRecorder and useGameStore together.  The
\* clock and the times of the store are in ms; the score is in 1/SCORE_ONE m;
\* terrain heights are in 1/TERRAIN_ONE m; angles are in 1/ANGLE_ONE rad.
SCORE_ONE == 20
TERRAIN_ONE == 1000
ANGLE_ONE == 10000
MIN_DEPLOYMENT_ALTITUDE == 760
\* GROUND_FRICTION = 0.8 per second, in tenths
GROUND_FRICTION == 8

MaxGameFrames == 8
MaxJumps == 2
MaxToggles == 2

\* a coordinate in 1/SCORE_ONE m, rounded down
ToScore(c) == c.m * SCORE_ONE + c.f \div (POS_ONE \div SCORE_ONE)

\* a height in 1/TERRAIN_ONE m as a coordinate
HeightCoord(h) == Coord(h \div TERRAIN_ONE, (h % TERRAIN_ONE) * (POS_ONE \div TERRAIN_ONE))

\* the terms of the power series of cos (k even) and sin (k odd) from the
\* k-th on: term * (1 - a^2/((k+1)(k+2)) * (1 - ...)), for |a| <= 3.2 rad
RECURSIVE TrigSeries(_, _, _)
TrigSeries(term, a, k) ==
    IF term = 0 \/ k > 24 THEN 0
    ELSE term + TrigSeries(-(MulDiv(MulDiv(term, a, ANGLE_ONE), a, ANGLE_ONE)
                              \div ((k + 1) * (k + 2))), a, k + 2)

\* Math.cos and Math.sin, argument and result in 1/ANGLE_ONE
Cos(a) == TrigSeries(ANGLE_ONE, a, 0)

Sin(a) == TrigSeries(a, a, 1)

\* Player getTerrainHeight, lines 349-360; x and z in 1/SCORE_ONE m, the
\* result in 1/TERRAIN_ONE m
getTerrainHeight(x, z) ==
    LET radius == 800 * SCORE_ONE
        Height(dist) ==
            IF dist < radius
            THEN Quot(Cos((dist * ANGLE_ONE) \div (250 * SCORE_ONE)) * 50 * TERRAIN_ONE, ANGLE_ONE)
                 + Quot(Sin(Quot(x * ANGLE_ONE, 100 * SCORE_ONE)) * 20 * TERRAIN_ONE, ANGLE_ONE)
                 + Quot(Cos(Quot(z * ANGLE_ONE, 100 * SCORE_ONE)) * 20 * TERRAIN_ONE, ANGLE_ONE)
                 + Max(0, 150 * TERRAIN_ONE - (dist * 150 * TERRAIN_ONE) \div radius)
                 - 2 * TERRAIN_ONE
            ELSE -(12 * TERRAIN_ONE)
    IN  Height(ISqrt(x * x + z * z))

\* Player useFrame, lines 300-303: the distance to the target at the origin
HorizontalDistance(position) ==
    LET Dist(x, z) == ISqrt(x * x + z * z)
    IN  Dist(ToScore(position.x), ToScore(position.z))

\* mutant: the perfect landing's bonus is not stopped at 0
ScoreForUnclamped(dist, quality) ==
    IF quality = "crash" THEN dist + 100 * SCORE_ONE
    ELSE IF quality = "hard" THEN dist + 20 * SCORE_ONE
    ELSE IF quality = "perfect" THEN dist - 5 * SCORE_ONE
    ELSE dist

\* Player useFrame, lines 305-310: the landing quality's bonus or penalty
ScoreFor(dist, quality) ==
    IF quality = "crash" THEN dist + 100 * SCORE_ONE
    ELSE IF quality = "hard" THEN dist + 20 * SCORE_ONE
    ELSE IF quality = "perfect" THEN Max(0, dist - 5 * SCORE_ONE)
    ELSE dist

\* mutant: the quality is taken from the whole speed
LandingQualityFromSpeed(velocity) ==
    classifyLanding((VEL_ONE \div SPEED_ONE) * velocityMagnitude(ToSpeed(velocity)))

\* Player useFrame, lines 277-278
LandingQualityAt(velocity) == classifyLanding(Abs(velocity.y))

\* mutant: the start time is not latched on the first canopy frame
DeploymentUpdateNoLatch(isCanopy, start, now) ==
    IF isCanopy
    THEN LET deploymentTime == now - start
         IN  [start |-> start, time |-> deploymentTime,
              factor |-> IF deploymentTime > DEPLOYMENT_DURATION THEN DF_ONE
                         ELSE getDeploymentFactor(deploymentTime)]
    ELSE [start |-> start, time |-> 0, factor |-> 0]

\* Player useFrame, lines 138-152: [start, time, factor], the start time ref,
\* the deployment time the frame sees and the deployment factor ref
DeploymentUpdate(isCanopy, start, now) ==
    IF isCanopy
    THEN LET Latched(latched) ==
                 LET deploymentTime == now - latched
                 IN  [start |-> latched, time |-> deploymentTime,
                      factor |-> IF deploymentTime > DEPLOYMENT_DURATION THEN DF_ONE
                                 ELSE getDeploymentFactor(deploymentTime)]
         IN  Latched(IF start = 0 THEN now ELSE start)
    ELSE [start |-> start, time |-> 0, factor |-> 0]

\* mutant: every frame's sample is appended
recordTelemetryEveryFrame(enabled, storePhase, storeJumpStartTime, storeTelemetry, time) ==
    IF ~enabled THEN storeTelemetry
    ELSE IF storePhase = "READY" \/ storePhase = "LANDED" THEN storeTelemetry
    ELSE Append(storeTelemetry, [time |-> time - storeJumpStartTime,
                                 phase |-> storePhase, at |-> time])

\* useGameStore recordTelemetry, lines 98-118: the telemetry list after the
\* call.  A sample keeps its time and phase, and (at) the clock reading it
\* was taken at.
recordTelemetry(enabled, storePhase, storeJumpStartTime, storeTelemetry, time) ==
    IF ~enabled THEN storeTelemetry
    ELSE IF storePhase = "READY" \/ storePhase = "LANDED" THEN storeTelemetry
    ELSE LET jumpTime == time - storeJumpStartTime
         IN  IF /\ Len(storeTelemetry) > 0
                /\ jumpTime - storeTelemetry[Len(storeTelemetry)].time < TIME_ONE \div 2
             THEN storeTelemetry
             ELSE Append(storeTelemetry, [time |-> jumpTime, phase |-> storePhase, at |-> time])

\* performance.now() when state.clock started: the page had been loading
ClockOrigins == {400}

\* a frame: the advance of state.clock and the delta handed to useFrame,
\* 0.25 s, which updatePhysics cuts down to MAX_FRAME_DELTA
FrameKinds ==
    { [dt |-> 250, delta |-> Dbl(262144, 0, 0)] }

\* a run of freefall frames that is not modelled frame by frame: the time it
\* takes and where it leaves the body, low enough to deploy or just above the
\* sea far from the target
FreefallDescent ==
    { [time |-> 40 * TIME_ONE,
       position |-> Vec(Metres(0), Metres(900), Metres(-300)),
       velocity |-> Vec(0, -(50 * VEL_ONE), -(8 * VEL_ONE))],
      [time |-> 60 * TIME_ONE,
       position |-> Vec(Metres(0), Coord(-11, POS_ONE \div 5), Metres(-900)),
       velocity |-> Vec(0, -(50 * VEL_ONE), -(8 * VEL_ONE))] }

\* a run of canopy frames that is not modelled frame by frame: the time it
\* takes and where it leaves the body, just above the ground at the target
\* (218 m) or just above the sea
CanopyDescent ==
    { [time |-> 90 * TIME_ONE,
       position |-> Vec(Metres(0), Coord(219, POS_ONE \div 50), Metres(0)),
       velocity |-> Vec(0, -(2 * VEL_ONE), -(5 * VEL_ONE))],
      [time |-> 120 * TIME_ONE,
       position |-> Vec(Metres(600), Coord(-11, POS_ONE \div 10), Metres(-700)),
       velocity |-> Vec(0, -(4 * VEL_ONE), -(8 * VEL_ONE))],
      [time |-> 120 * TIME_ONE,
       position |-> Vec(Metres(600), Coord(-11, POS_ONE \div 10), Metres(-700)),
       velocity |-> Vec(0, -((13 * VEL_ONE) \div 2), -(8 * VEL_ONE))] }

InitGame ==
    /\ IntIdle
    /\ StepIdle
    /\ NormIdle
    /\ LandIdle
    /\ elapsedTime = 0
    /\ phase = "READY"
    /\ deploymentStartTimeRef = 0
    /\ deploymentFactorRef = 0
    /\ turn = NoTurn
    /\ cframes = 0
    /\ body = [position |-> JumpPosition, velocity |-> ZeroVel]
    /\ altitude = Metres(JUMP_ALTITUDE)
    /\ landingQuality = "null"
    /\ score = 0
    /\ telemetry = <<>>
    /\ telemetryEnabled = FALSE
    /\ jumpStartTime = 0
    /\ action = FALSE
    /\ clockOrigin \in ClockOrigins
    /\ hist = NoHist
    /\ gframes = 0

\* Player useEffect, lines 62-78: an effect whose condition holds runs before
\* anything else does
EffectPending ==
    \/ phase = "READY" /\ action
    \/ /\ phase = "FREEFALL"
       /\ action
       /\ CoordLess(altitude, Metres(MIN_DEPLOYMENT_ALTITUDE + 200))

gameRest == <<env, last, frames, sumSteps, sumCalls, sumTime, turn, cframes,
              stepVars, normVars, landVars, clockOrigin>>

\* useControls: Space goes down
PressAction ==
    /\ ~EffectPending
    /\ ~action
    /\ action' = TRUE
    /\ UNCHANGED hist
    /\ UNCHANGED <<acc, acceleration, elapsedTime, phase, deploymentStartTimeRef,
                   deploymentFactorRef, body, altitude, landingQuality, score, telemetry,
                   telemetryEnabled, jumpStartTime, gframes, gameRest>>

\* useControls: Space goes up
ReleaseAction ==
    /\ ~EffectPending
    /\ action
    /\ action' = FALSE
    /\ UNCHANGED hist
    /\ UNCHANGED <<acc, acceleration, elapsedTime, phase, deploymentStartTimeRef,
                   deploymentFactorRef, body, altitude, landingQuality, score, telemetry,
                   telemetryEnabled, jumpStartTime, gframes, gameRest>>

\* App, line 160: the telemetry button
ToggleTelemetry ==
    /\ ~EffectPending
    /\ hist.toggles < MaxToggles
    /\ telemetryEnabled' = ~telemetryEnabled
    /\ hist' = [hist EXCEPT !.toggles = @ + 1]
    /\ UNCHANGED <<acc, acceleration, elapsedTime, phase, deploymentStartTimeRef,
                   deploymentFactorRef, body, altitude, landingQuality, score, telemetry,
                   jumpStartTime, action, gframes, gameRest>>

\* Player useEffect, lines 63-72, with useGameStore jump, lines 89-93
EffectJump ==
    /\ phase = "READY"
    /\ action
    /\ hist.jumps < MaxJumps
    /\ phase' = "FREEFALL"
    /\ jumpStartTime' = clockOrigin + elapsedTime
    /\ telemetry' = IF telemetryEnabled THEN <<>> ELSE telemetry
    /\ acc' = createAccumulator(JumpPosition, ExitVelocity)
    /\ deploymentFactorRef' = 0
    /\ deploymentStartTimeRef' = 0
    /\ hist' = [hist EXCEPT !.jumps = @ + 1, !.jumpInstant = elapsedTime,
                            !.firstStep = NoFirstStep, !.canopy = NoCanopyFrame]
    /\ UNCHANGED <<acceleration, elapsedTime, body, altitude, landingQuality, score,
                   telemetryEnabled, action, gframes, gameRest>>

\* mutant: the canopy opens at any altitude
EffectDeployAnyAltitude ==
    /\ phase = "FREEFALL"
    /\ action
    /\ phase' = "CANOPY"
    /\ deploymentStartTimeRef' = 0
    /\ hist' = [hist EXCEPT !.canopy = NoCanopyFrame]
    /\ UNCHANGED <<acc, acceleration, elapsedTime, deploymentFactorRef, body, altitude,
                   landingQuality, score, telemetry, telemetryEnabled, jumpStartTime, action,
                   gframes, gameRest>>

\* Player useEffect, lines 74-77, with useGameStore deployChute, line 95
EffectDeploy ==
    /\ phase = "FREEFALL"
    /\ action
    /\ CoordLess(altitude, Metres(MIN_DEPLOYMENT_ALTITUDE + 200))
    /\ phase' = "CANOPY"
    /\ deploymentStartTimeRef' = 0
    /\ hist' = [hist EXCEPT !.canopy = NoCanopyFrame]
    /\ UNCHANGED <<acc, acceleration, elapsedTime, deploymentFactorRef, body, altitude,
                   landingQuality, score, telemetry, telemetryEnabled, jumpStartTime, action,
                   gframes, gameRest>>

\* GameOverScreen, lines 7 and 136-138: Jump Again, with useGameStore reset,
\* lines 78-87
ClickJumpAgain ==
    /\ phase = "LANDED"
    /\ phase' = "READY"
    /\ altitude' = Metres(JUMP_ALTITUDE)
    /\ acceleration' = 0
    /\ score' = 0
    /\ landingQuality' = "null"
    /\ telemetry' = <<>>
    /\ jumpStartTime' = 0
    /\ hist' = [hist EXCEPT !.contact = NoContact]
    /\ UNCHANGED <<acc, elapsedTime, deploymentStartTimeRef, deploymentFactorRef, body,
                   telemetryEnabled, action, gframes, gameRest>>

\* Player useFrame, lines 91-106: in the aircraft
ReadyFrame ==
    /\ body' = [position |-> JumpPosition, velocity |-> ZeroVel]
    /\ acc' = createAccumulator(JumpPosition, ZeroVel)
    /\ altitude' = Metres(JUMP_ALTITUDE)
    /\ acceleration' = 0
    /\ telemetry' = recordTelemetry(telemetryEnabled, phase, jumpStartTime, telemetry,
                                    elapsedTime')
    /\ UNCHANGED <<hist, phase, deploymentStartTimeRef, deploymentFactorRef, landingQuality, score,
                   jumpStartTime>>

\* Player useFrame, lines 111-132: on the ground; Space resets
LandedFrame(k) ==
    IF action
    THEN /\ phase' = "READY"
         /\ altitude' = Metres(JUMP_ALTITUDE)
         /\ acceleration' = 0
         /\ score' = 0
         /\ landingQuality' = "null"
         /\ jumpStartTime' = 0
         /\ body' = [position |-> JumpPosition, velocity |-> ZeroVel]
         /\ acc' = createAccumulator(JumpPosition, ZeroVel)
         /\ telemetry' = recordTelemetry(telemetryEnabled, "READY", 0, <<>>, elapsedTime')
         /\ hist' = [hist EXCEPT !.contact = NoContact]
         /\ UNCHANGED <<deploymentStartTimeRef, deploymentFactorRef>>
    ELSE /\ body' = [body EXCEPT !.velocity =
                         Vec(MulDiv(body.velocity.x, 10 * TIME_ONE - GROUND_FRICTION * k.dt,
                                    10 * TIME_ONE),
                             0,
                             MulDiv(body.velocity.z, 10 * TIME_ONE - GROUND_FRICTION * k.dt,
                                    10 * TIME_ONE))]
         /\ telemetry' = recordTelemetry(telemetryEnabled, phase, jumpStartTime, telemetry,
                                         elapsedTime')
         /\ UNCHANGED <<hist, acc, acceleration, phase, deploymentStartTimeRef, deploymentFactorRef,
                        altitude, landingQuality, score, jumpStartTime>>

\* Player useFrame, lines 138-313, followed by TelemetryRecorder's useFrame:
\* the deployment update, the accumulator taken from the body, updatePhysics,
\* the body and the store set from the accumulator, the ground contact
ActiveFrame(k, start) ==
    LET isCanopy == phase = "CANOPY"
        Deployed(d) ==
            LET Ran(r) ==
                    LET Ground(groundHeight) ==
                            LET contact == CoordLeq(r.acc.currentPosition.y,
                                                    HeightCoord(groundHeight + TERRAIN_ONE))
                                quality == LandingQualityAt(r.acc.currentVelocity)
                                newPhase == IF contact THEN "LANDED" ELSE phase
                            IN  /\ phase' = newPhase
                                /\ landingQuality' = IF contact THEN quality ELSE landingQuality
                                /\ score' = IF contact
                                            THEN ScoreFor(HorizontalDistance(
                                                              r.acc.currentPosition), quality)
                                            ELSE score
                                /\ body' =
                                       IF contact
                                       THEN [position |->
                                                 Vec(r.acc.currentPosition.x,
                                                     HeightCoord(groundHeight
                                                                 + TERRAIN_ONE \div 2),
                                                     r.acc.currentPosition.z),
                                             velocity |->
                                                 Vec(MulDiv(r.acc.currentVelocity.x, 3, 10),
                                                     0,
                                                     MulDiv(r.acc.currentVelocity.z, 3, 10))]
                                       ELSE IF r.steps > 0
                                       THEN [position |-> r.acc.currentPosition,
                                             velocity |-> r.acc.currentVelocity]
                                       ELSE [position |-> start.position,
                                             velocity |-> start.velocity]
                                /\ telemetry' = recordTelemetry(telemetryEnabled, newPhase,
                                                                jumpStartTime, telemetry,
                                                                elapsedTime')
                                /\ hist' = [hist EXCEPT
                                       !.contact = IF contact
                                                   THEN [position |-> r.acc.currentPosition,
                                                         velocity |-> r.acc.currentVelocity]
                                                   ELSE @,
                                       !.firstStep =
                                           IF ~@.done /\ r.steps > 0
                                           THEN [done |-> TRUE,
                                                 position |-> r.calls[1].position,
                                                 velocity |-> r.calls[1].velocity]
                                           ELSE @,
                                       !.canopy =
                                           IF isCanopy
                                           THEN [frames |-> Min(@.frames + 1, 2),
                                                 time |-> d.time,
                                                 prev |-> @.time]
                                           ELSE @]
                    IN  /\ acc' = r.acc
                        /\ altitude' = r.acc.currentPosition.y
                        /\ acceleration' = avgGForce(r.calls)
                        /\ Ground(getTerrainHeight(ToScore(r.acc.currentPosition.x),
                                                   ToScore(r.acc.currentPosition.z)))
            IN  /\ deploymentStartTimeRef' = d.start
                /\ deploymentFactorRef' = d.factor
                /\ Ran(updatePhysics([acc EXCEPT !.currentPosition = start.position,
                                                 !.currentVelocity = start.velocity],
                                     k.delta,
                                     [controls |-> NoControls, isCanopy |-> isCanopy,
                                      deploymentFactor |-> d.factor]))
    IN  /\ Deployed(DeploymentUpdate(isCanopy, deploymentStartTimeRef, elapsedTime'))
        /\ UNCHANGED jumpStartTime

\* the body at the start of a frame: as the last frame left it, or as a run
\* of frames that is not modelled frame by frame left it; the first frame of
\* a freefall and the first frame of a canopy flight are always modelled
FromBody == [time |-> 0, position |-> body.position, velocity |-> body.velocity]

FrameStarts ==
    IF phase = "FREEFALL" /\ hist.firstStep.done THEN {FromBody} \cup FreefallDescent
    ELSE IF phase = "CANOPY" /\ deploymentStartTimeRef # 0 THEN {FromBody} \cup CanopyDescent
    ELSE {FromBody}

\* one frame of the render loop: Player's useFrame, then TelemetryRecorder's
GameFrame(k, start) ==
    /\ ~EffectPending
    /\ gframes < MaxGameFrames
    /\ elapsedTime' = elapsedTime + start.time + k.dt
    /\ gframes' = gframes + 1
    /\ IF phase = "READY" THEN ReadyFrame
       ELSE IF phase = "LANDED" THEN LandedFrame(k)
       ELSE ActiveFrame(k, start)
    /\ UNCHANGED <<telemetryEnabled, action, gameRest>>

NextGame ==
    \/ PressAction
    \/ ReleaseAction
    \/ EffectJump
    \/ EffectDeploy
    \/ ClickJumpAgain
    \/ \E k \in FrameKinds: \E start \in FrameStarts: GameFrame(k, start)

SpecGame == InitGame /\ [][NextGame]_vars

\* ------------------------------------------ the telemetry, frame by frame
\* useGameStore and TelemetryRecorder with the telemetry button; of Player's
\* active frame only what it writes to the store is kept: the altitude it
\* publishes and, at a ground contact, the landing.
MaxTelemetryFrames == 6

TelemetryClockOrigins == {400, 3 * TIME_ONE}

\* the advance of state.clock between two frames, ms
TelemetryClockDeltas == {250, 500}

\* what an active frame of Player writes to the store
FrameOutcomes ==
    { [altitude |-> Metres(2000), landed |-> FALSE, landingQuality |-> "null", score |-> 0],
      [altitude |-> Metres(900), landed |-> FALSE, landingQuality |-> "null", score |-> 0],
      [altitude |-> Coord(-12, POS_ONE \div 2), landed |-> TRUE, landingQuality |-> "good",
       score |-> 900 * SCORE_ONE] }

InitTelemetry ==
    /\ IntIdle
    /\ StepIdle
    /\ NormIdle
    /\ LandIdle
    /\ elapsedTime = 0
    /\ phase = "READY"
    /\ deploymentStartTimeRef = 0
    /\ deploymentFactorRef = 0
    /\ turn = NoTurn
    /\ cframes = 0
    /\ body = [position |-> JumpPosition, velocity |-> ZeroVel]
    /\ altitude = Metres(JUMP_ALTITUDE)
    /\ landingQuality = "null"
    /\ score = 0
    /\ telemetry = <<>>
    /\ telemetryEnabled = FALSE
    /\ jumpStartTime = 0
    /\ action = FALSE
    /\ clockOrigin \in TelemetryClockOrigins
    /\ hist = NoHist
    /\ gframes = 0

\* Player useFrame, lines 259-285, as the store sees an active frame
\* (setAltitude, land, setLandingQuality, setScore), followed by
\* TelemetryRecorder's useFrame
PublishingFrame(out) ==
    LET newPhase == IF out.landed THEN "LANDED" ELSE phase
    IN  /\ altitude' = out.altitude
        /\ phase' = newPhase
        /\ landingQuality' = IF out.landed THEN out.landingQuality ELSE landingQuality
        /\ score' = IF out.landed THEN out.score ELSE score
        /\ telemetry' = recordTelemetry(telemetryEnabled, newPhase, jumpStartTime, telemetry,
                                        elapsedTime')
        /\ UNCHANGED <<acc, acceleration, body, deploymentStartTimeRef, deploymentFactorRef,
                       jumpStartTime, hist>>

\* one frame of the render loop, as the store sees it
TelemetryFrame(dt, out) ==
    /\ ~EffectPending
    /\ gframes < MaxTelemetryFrames
    /\ elapsedTime' = elapsedTime + dt
    /\ gframes' = gframes + 1
    /\ IF phase = "READY" THEN ReadyFrame
       ELSE IF phase = "LANDED" THEN LandedFrame([dt |-> dt])
       ELSE PublishingFrame(out)
    /\ UNCHANGED <<telemetryEnabled, action, gameRest>>

NextTelemetry ==
    \/ PressAction
    \/ ReleaseAction
    \/ ToggleTelemetry
    \/ EffectJump
    \/ EffectDeploy
    \/ ClickJumpAgain
    \/ \E dt \in TelemetryClockDeltas: \E out \in FrameOutcomes: TelemetryFrame(dt, out)

SpecTelemetry == InitTelemetry /\ [][NextTelemetry]_vars

\* ============================================================ the forces
\* C11 as claimed: for any nonzero velocity the drag is antiparallel to the
\* velocity and has magnitude rho(altitude) * speed^2 * k.  (Antiparallel
\* and equal up to the resolution of the speed, one part in speed, and of
\* the force components.)
C11_DragForAnyNonzeroVelocity ==
    LET sv == ToSpeed(pres.velocity)
        drag == pres.forces.dragForce
        Law(speed, mag) ==
            /\ \A c \in {"x", "y", "z"}:
                  /\ Sgn(drag[c]) \in {0, -Sgn(sv[c])}
                  /\ Abs(drag[c] + MulDiv(mag, sv[c], speed)) <= mag \div speed + 4
            /\ Abs(velocityMagnitude(drag) - mag) <= mag \div speed + 4
        At(speed) ==
            Law(speed, MulDiv(MulDiv(speed * speed,
                                     getAirDensity(Max(0, pres.position.y.m)), RHO_ONE),
                              EffectiveK(pin.controls, pin.isCanopy, pin.deploymentFactor),
                              (K_ONE * SPEED_ONE * SPEED_ONE) \div FORCE_ONE))
    IN  (pn > 0 /\ pres.velocity # ZeroVel) => At(velocityMagnitude(sv))

\* C11 as amended: the same for any velocity whose speed exceeds 0.01 m/s; up
\* to 0.01 m/s, zero or not, the drag is the zero vector.
C11_DragAboveThreshold ==
    LET sv == ToSpeed(pres.velocity)
        drag == pres.forces.dragForce
        Law(speed, mag) ==
            /\ \A c \in {"x", "y", "z"}:
                  /\ Sgn(drag[c]) \in {0, -Sgn(sv[c])}
                  /\ Abs(drag[c] + MulDiv(mag, sv[c], speed)) <= mag \div speed + 4
            /\ Abs(velocityMagnitude(drag) - mag) <= mag \div speed + 4
        At(speed) ==
            IF speed * 100 > SPEED_ONE
            THEN Law(speed, MulDiv(MulDiv(speed * speed,
                                          getAirDensity(Max(0, pres.position.y.m)), RHO_ONE),
                                   EffectiveK(pin.controls, pin.isCanopy, pin.deploymentFactor),
                                   (K_ONE * SPEED_ONE * SPEED_ONE) \div FORCE_ONE))
            ELSE drag = ZeroForce
    IN  pn > 0 => At(velocityMagnitude(sv))

\* a step at a velocity with three nonzero components and a drag of more
\* than 100 N
C11_Witness ==
    /\ pn > 0
    /\ pres.velocity.x # 0 /\ pres.velocity.y # 0 /\ pres.velocity.z # 0
    /\ velocityMagnitude(pres.forces.dragForce) > 100 * FORCE_ONE

\* C12 as claimed: normalize returns the zero vector whenever the magnitude
\* of its argument is near zero (here: at most 0.01 m/s, the speed below which
\* calculateForces treats the body as at rest), not only when it is zero.
C12_NearZeroGivesZero ==
    (ndone /\ velocityMagnitude(nin) * 100 <= SPEED_ONE) => nout = Vec(0, 0, 0)

\* C13: in canopy phase the effective drag factor is the linear interpolation
\* k_belly + (k_canopy - k_belly) * deploymentFactor, and the drag of the step
\* is computed with it: the belly value at factor 0, the canopy value at 1,
\* non-decreasing in the factor, the same for every dive/arch/track input.
C13_CanopyDragInterpolated ==
    LET factors == { ph[2] : ph \in StepPhases }
        k(d) == DRAG_BELLY.k + ((DRAG_PARACHUTE.k - DRAG_BELLY.k) * d) \div DF_ONE
    IN  (pn > 0 /\ pin.isCanopy) =>
            /\ pres.forces.dragForce =
                   DragForce(Max(0, pres.position.y.m), pres.velocity, k(pin.deploymentFactor))
            /\ \A c \in AllControls:
                   /\ EffectiveK(c, TRUE, pin.deploymentFactor) = k(pin.deploymentFactor)
                   /\ EffectiveK(c, TRUE, 0) = DRAG_BELLY.k
                   /\ EffectiveK(c, TRUE, DF_ONE) = DRAG_PARACHUTE.k
                   /\ \A d \in factors:
                          d <= pin.deploymentFactor =>
                              EffectiveK(c, TRUE, d) <= EffectiveK(c, TRUE, pin.deploymentFactor)

\* a canopy step, partly deployed, in the dive position, with drag
C13_Witness ==
    /\ pn > 0
    /\ pin.isCanopy
    /\ pin.deploymentFactor * 10 = 4 * DF_ONE
    /\ pin.controls.dive
    /\ pres.forces.dragForce # ZeroForce

\* C14: the thrust is (0, 0, -TRACK_THRUST) exactly when the phase is freefall
\* and the track flag is set, and zero otherwise, whichever drag configuration
\* the precedence rule selected.
C14_ThrustOnlyWhenTracking ==
    pn > 0 =>
        pres.forces.thrustForce =
            IF ~pin.isCanopy /\ pin.controls.track
            THEN [x |-> 0, y |-> 0, z |-> -(TRACK_THRUST * FORCE_ONE)]
            ELSE [x |-> 0, y |-> 0, z |-> 0]

\* a freefall step with track and dive held: the drag is that of the dive
\* position, the thrust is applied
C14_Witness ==
    /\ pn > 0
    /\ ~pin.isCanopy
    /\ pin.controls.track
    /\ pin.controls.dive
    /\ getDragConfigForPosition(pin.controls, FALSE) = DRAG_DIVE
    /\ pres.forces.thrustForce.z = -(TRACK_THRUST * FORCE_ONE)

\* C15: the lift/drive force is zero whenever the phase is not canopy or the
\* deployment factor is at most 0.3, for every control input and velocity.
C15_LiftGated ==
    (pn > 0 /\ (~pin.isCanopy \/ pin.deploymentFactor * 10 <= 3 * DF_ONE)) =>
        pres.forces.liftForce = [x |-> 0, y |-> 0, z |-> 0]

\* a freefall step with deployment factor 1 (the default of calculateForces),
\* brake input and a moving body
C15_Witness ==
    /\ pn > 0
    /\ ~pin.isCanopy
    /\ pin.deploymentFactor = DF_ONE
    /\ pin.controls.flare
    /\ pres.velocity # ZeroVel
    /\ pres.forces.liftForce = ZeroForce

\* C16 as claimed: with the lift law active (deployment factor d > 0.3) the
\* vertical control force is (target descent rate - current descent rate) *
\* gain * d and the forward control force is (target forward speed - current
\* forward speed) * gain * d, d being the deployment factor passed to the step.
C16_ControlForcesScaledByFactor ==
    LET d == pin.deploymentFactor
        eff == Min(DF_ONE, (10 * d - 3 * DF_ONE) \div 7)
        w == d
        sv == ToSpeed(pres.velocity)
        hs == ISqrt(sv.x * sv.x + sv.z * sv.z)
        brake == pin.controls.flare \/ pin.controls.arch
        targetDescentRate ==
            IF brake THEN PARACHUTE_BRAKE_DESCENT * VEL_ONE
            ELSE IF pin.controls.dive THEN (PARACHUTE_GLIDE_DESCENT * VEL_ONE * 13) \div 10
            ELSE ((PARACHUTE_GLIDE_DESCENT + PARACHUTE_BRAKE_DESCENT) * VEL_ONE) \div 2
        targetForwardSpeed ==
            IF brake THEN (PARACHUTE_FORWARD_SPEED * SPEED_ONE * 3) \div 10
            ELSE IF pin.controls.dive THEN (PARACHUTE_FORWARD_SPEED * SPEED_ONE * 12) \div 10
            ELSE PARACHUTE_FORWARD_SPEED * SPEED_ONE
        \* 100 N per m/s of descent error, 30 N per m/s of forward error
        verticalForce == MulDiv(targetDescentRate + pres.velocity.y, 5 * w, 6 * DF_ONE)
        forwardForce ==
            MulDiv((targetForwardSpeed - hs) * ((30 * FORCE_ONE) \div SPEED_ONE), w, DF_ONE)
        flareLift ==
            IF brake /\ hs > 5 * SPEED_ONE
            THEN MulDiv(MulDiv(FLARE_LIFT_FORCE * FORCE_ONE, eff, DF_ONE), hs, 15 * SPEED_ONE)
            ELSE 0
        lift == pres.forces.liftForce
    IN  (pn > 0 /\ pin.isCanopy /\ d * 10 > 3 * DF_ONE) =>
            /\ lift.y - flareLift = verticalForce
            /\ IF hs * 2 > SPEED_ONE
               THEN /\ lift.x = MulDiv(MulDiv(sv.x, NORM_ONE, hs), forwardForce, NORM_ONE)
                    /\ lift.z = MulDiv(MulDiv(sv.z, NORM_ONE, hs), forwardForce, NORM_ONE)
               ELSE lift.x = 0 /\ lift.z = -forwardForce

\* C16 as amended: the two control forces are scaled by the effective
\* deployment min(1, (d - 0.3) / 0.7), which maps 0.3..1 onto 0..1, not by d.
C16_ControlForcesScaledByEffective ==
    LET d == pin.deploymentFactor
        eff == Min(DF_ONE, (10 * d - 3 * DF_ONE) \div 7)
        w == eff
        sv == ToSpeed(pres.velocity)
        hs == ISqrt(sv.x * sv.x + sv.z * sv.z)
        brake == pin.controls.flare \/ pin.controls.arch
        targetDescentRate ==
            IF brake THEN PARACHUTE_BRAKE_DESCENT * VEL_ONE
            ELSE IF pin.controls.dive THEN (PARACHUTE_GLIDE_DESCENT * VEL_ONE * 13) \div 10
            ELSE ((PARACHUTE_GLIDE_DESCENT + PARACHUTE_BRAKE_DESCENT) * VEL_ONE) \div 2
        targetForwardSpeed ==
            IF brake THEN (PARACHUTE_FORWARD_SPEED * SPEED_ONE * 3) \div 10
            ELSE IF pin.controls.dive THEN (PARACHUTE_FORWARD_SPEED * SPEED_ONE * 12) \div 10
            ELSE PARACHUTE_FORWARD_SPEED * SPEED_ONE
        \* 100 N per m/s of descent error, 30 N per m/s of forward error
        verticalForce == MulDiv(targetDescentRate + pres.velocity.y, 5 * w, 6 * DF_ONE)
        forwardForce ==
            MulDiv((targetForwardSpeed - hs) * ((30 * FORCE_ONE) \div SPEED_ONE), w, DF_ONE)
        flareLift ==
            IF brake /\ hs > 5 * SPEED_ONE
            THEN MulDiv(MulDiv(FLARE_LIFT_FORCE * FORCE_ONE, eff, DF_ONE), hs, 15 * SPEED_ONE)
            ELSE 0
        lift == pres.forces.liftForce
    IN  (pn > 0 /\ pin.isCanopy /\ d * 10 > 3 * DF_ONE) =>
            /\ lift.y - flareLift = verticalForce
            /\ IF hs * 2 > SPEED_ONE
               THEN /\ lift.x = MulDiv(MulDiv(sv.x, NORM_ONE, hs), forwardForce, NORM_ONE)
                    /\ lift.z = MulDiv(MulDiv(sv.z, NORM_ONE, hs), forwardForce, NORM_ONE)
               ELSE lift.x = 0 /\ lift.z = -forwardForce

\* a canopy step at deployment factor 0.4 in canopy flight, where both control
\* forces are nonzero
C16_Witness ==
    /\ pn > 0
    /\ pin.isCanopy
    /\ pin.deploymentFactor * 10 = 4 * DF_ONE
    /\ ~pin.controls.flare /\ ~pin.controls.arch
    /\ pres.forces.liftForce.y # 0
    /\ pres.forces.liftForce.x # 0
    /\ pres.forces.liftForce.z # 0

\* C17 as claimed: the target descent rate selected for brake/flare input is
\* slower than the one for neutral input, which is slower than the one for
\* dive input; the target forward speed is lowest for brake, highest for dive.
C17_BrakeSlowestDiveFastest ==
    LET brake(c) == c.flare \/ c.arch
        dive(c) == ~brake(c) /\ c.dive
        neutral(c) == ~brake(c) /\ ~c.dive
        mine == pin.controls
    IN  (pn > 0 /\ pin.isCanopy /\ pin.deploymentFactor * 10 > 3 * DF_ONE) =>
            \A c \in AllControls:
                /\ (brake(mine) /\ neutral(c)) =>
                       /\ TargetDescentRate(mine) < TargetDescentRate(c)
                       /\ TargetForwardSpeed(mine) < TargetForwardSpeed(c)
                /\ (neutral(mine) /\ dive(c)) =>
                       /\ TargetDescentRate(mine) < TargetDescentRate(c)
                       /\ TargetForwardSpeed(mine) < TargetForwardSpeed(c)

\* C17 as amended: the target descent rate is 6 m/s for brake/flare input,
\* 5.2 m/s for dive input and 5 m/s for neutral input (neutral < dive < brake);
\* the target forward speed is 3.6 m/s for brake, 12 m/s for neutral and
\* 14.4 m/s for dive (brake < neutral < dive).
C17_TargetsAsSelected ==
    LET brake(c) == c.flare \/ c.arch
        dive(c) == ~brake(c) /\ c.dive
        neutral(c) == ~brake(c) /\ ~c.dive
        mine == pin.controls
    IN  (pn > 0 /\ pin.isCanopy /\ pin.deploymentFactor * 10 > 3 * DF_ONE) =>
            /\ brake(mine) =>
                   /\ TargetDescentRate(mine) = 6 * VEL_ONE
                   /\ TargetForwardSpeed(mine) * 10 = 36 * SPEED_ONE
            /\ dive(mine) =>
                   /\ TargetDescentRate(mine) * 10 = 52 * VEL_ONE
                   /\ TargetForwardSpeed(mine) * 10 = 144 * SPEED_ONE
            /\ neutral(mine) =>
                   /\ TargetDescentRate(mine) = 5 * VEL_ONE
                   /\ TargetForwardSpeed(mine) = 12 * SPEED_ONE
            /\ \A c \in AllControls:
                   /\ (neutral(mine) /\ dive(c)) =>
                          /\ TargetDescentRate(mine) < TargetDescentRate(c)
                          /\ TargetForwardSpeed(mine) < TargetForwardSpeed(c)
                   /\ (dive(mine) /\ brake(c)) =>
                          /\ TargetDescentRate(mine) < TargetDescentRate(c)
                          /\ TargetForwardSpeed(c) < TargetForwardSpeed(mine)
                   /\ (brake(mine) /\ neutral(c)) =>
                          /\ TargetDescentRate(c) < TargetDescentRate(mine)
                          /\ TargetForwardSpeed(mine) < TargetForwardSpeed(c)

\* a fully deployed canopy step under brake input, descending at 4 m/s: the
\* vertical control force points up, towards the 6 m/s target
C17_Witness ==
    /\ pn > 0
    /\ pin.isCanopy
    /\ pin.deploymentFactor = DF_ONE
    /\ pin.controls.flare
    /\ pres.velocity.y = -(4 * VEL_ONE)
    /\ pres.forces.liftForce.y > 0

C19_NoTurnBelowHalf ==
    turn.called =>
        /\ turn.deploymentFactor = deploymentFactorRef
        /\ deploymentFactorRef * 2 < DF_ONE => turn.rate = 0
        /\ elapsedTime - deploymentStartTimeRef < DEPLOYMENT_SIGMOID_CENTER =>
               /\ deploymentFactorRef * 2 < DF_ONE
               /\ turn.rate = 0

\* a turn input one second and more into the deployment, the factor still
\* below 0.5
C19_Witness ==
    /\ turn.called
    /\ turn.controls.left \/ turn.controls.right
    /\ elapsedTime - deploymentStartTimeRef >= TIME_ONE
    /\ deploymentFactorRef * 10 >= 3 * DF_ONE
    /\ deploymentFactorRef * 2 < DF_ONE
    /\ turn.rate = 0

\* C20 as claimed: for deployment factor d >= 0.5 the turn rate is
\* CANOPY_TURN_RATE * d * s with s = +1 for left only, -1 for right only, and
\* 0 both when neither and when both of left and right are pressed.
C20_TurnRateSigned ==
    LET s == IF turn.controls.left /\ ~turn.controls.right THEN 1
             ELSE IF turn.controls.right /\ ~turn.controls.left THEN -1
             ELSE 0
    IN  (turn.called /\ turn.deploymentFactor * 2 >= DF_ONE) =>
            turn.rate = CANOPY_TURN_RATE * turn.deploymentFactor * s

\* ============================================================== the landing
\* C21: classifyLanding depends only on the absolute value of the vertical
\* speed and uses half-open buckets: |v| < 3 perfect, 3 <= |v| < 5 good,
\* 5 <= |v| < 8 hard, |v| >= 8 crash; exactly 3, 5 and 8 fall into the
\* higher-severity bucket and classify(-6) is hard.
C21_LandingBuckets ==
    LET a == IF lin < 0 THEN -lin ELSE lin
    IN  ldone =>
            /\ lout \in {"perfect", "good", "hard", "crash"}
            /\ lout = "perfect" <=> a < 3 * VEL_ONE
            /\ lout = "good" <=> (3 * VEL_ONE <= a /\ a < 5 * VEL_ONE)
            /\ lout = "hard" <=> (5 * VEL_ONE <= a /\ a < 8 * VEL_ONE)
            /\ lout = "crash" <=> 8 * VEL_ONE <= a
            /\ lout = classifyLanding(-lin)
            /\ lin = -(6 * VEL_ONE) => lout = "hard"

\* the boundary of exactly -5 m/s, classified as hard
C21_Witness ==
    /\ ldone
    /\ lin = -(5 * VEL_ONE)
    /\ lout = "hard"

C22_DeploymentCompletes ==
    /\ [](deploymentFactorRef >= 0 /\ deploymentFactorRef <= DF_ONE)
    /\ [][(phase = "CANOPY" /\ phase' = "CANOPY") =>
              /\ deploymentFactorRef' >= deploymentFactorRef
              /\ deploymentFactorRef = DF_ONE => deploymentFactorRef' = DF_ONE]_vars
    /\ (phase = "CANOPY") ~>
           [](deploymentFactorRef = DF_ONE /\
              deploymentFactorRef > (3 * DF_ONE) \div 10 /\
              deploymentFactorRef >= DF_ONE \div 2)

\* a frame more than DEPLOYMENT_DURATION after canopy entry, the factor 1 and
\* a turn under way
C22_Witness ==
    /\ phase = "CANOPY"
    /\ deploymentStartTimeRef # 0
    /\ elapsedTime - deploymentStartTimeRef > DEPLOYMENT_DURATION
    /\ deploymentFactorRef = DF_ONE
    /\ turn.called
    /\ turn.rate # 0

\* ==================================================== the deployment clock
\* C23: on every entry into CANOPY, in the first jump and in a later jump
\* after a reset, the first canopy frame sees deployment time 0, the
\* following canopy frames see a deployment time that does not decrease, and
\* the start time it is measured from was latched in this jump: the ref is 0
\* from the entry until the first canopy frame, and later than the jump
\* afterwards.
C23_DeploymentTimeFromZero ==
    /\ (phase = "CANOPY" /\ hist.canopy.frames = 0) => deploymentStartTimeRef = 0
    /\ hist.canopy.frames = 1 => hist.canopy.time = 0
    /\ hist.canopy.frames > 1 =>
           /\ hist.canopy.prev >= 0
           /\ hist.canopy.time >= hist.canopy.prev
    /\ hist.canopy.frames > 0 =>
           /\ deploymentStartTimeRef > hist.jumpInstant
           /\ deploymentStartTimeRef <= elapsedTime

\* the second jump, after a reset: two canopy frames, the first at deployment
\* time 0
C23_Witness ==
    /\ hist.jumps = 2
    /\ phase = "CANOPY"
    /\ hist.canopy.frames = 2
    /\ hist.canopy.prev = 0
    /\ hist.canopy.time > 0

\* ===================================================== the landing quality
\* C24: the landing quality is computed at ground contact, as classifyLanding
\* of the absolute vertical component of the accumulator's velocity at
\* contact; whenever the phase is LANDED the stored landingQuality is that
\* value and not null, it is null in every other phase, it does not change
\* while the phase stays LANDED, and LANDED is left only for READY with the
\* quality null again.
C24_QualityFixedAtContact ==
    /\ [](phase = "LANDED" =>
              /\ landingQuality # "null"
              /\ landingQuality = classifyLanding(Abs(hist.contact.velocity.y)))
    /\ [](phase # "LANDED" => landingQuality = "null")
    /\ [][(phase # "LANDED" /\ phase' = "LANDED") =>
              /\ hist'.contact.velocity = acc'.currentVelocity
              /\ landingQuality' = classifyLanding(Abs(acc'.currentVelocity.y))]_vars
    /\ [][(phase = "LANDED" /\ phase' = "LANDED") =>
              /\ landingQuality' = landingQuality
              /\ hist'.contact = hist.contact]_vars
    /\ [][(phase = "LANDED" /\ phase' # "LANDED") =>
              /\ phase' = "READY"
              /\ landingQuality' = "null"]_vars

\* a landing under canopy, rated perfect although the whole speed is above
\* 3 m/s, a frame or more after the contact
C24_Witness ==
    /\ phase = "LANDED"
    /\ hist.canopy.frames > 0
    /\ landingQuality = "perfect"
    /\ velocityMagnitude(ToSpeed(hist.contact.velocity)) > 3 * SPEED_ONE
    /\ body.velocity.z # MulDiv(hist.contact.velocity.z, 3, 10)

\* ========================================================== the phases
\* C25: the phase changes only from READY to FREEFALL with the action
\* pressed, from FREEFALL to CANOPY with the action pressed and the altitude
\* below MIN_DEPLOYMENT_ALTITUDE + 200, from FREEFALL or CANOPY to LANDED at a
\* ground contact (the accumulator at or below the ground height + 1), and
\* from LANDED to READY by a reset, which clears the store.
C25_PhaseTransitions ==
    [][phase' # phase =>
          \/ /\ phase = "READY"
             /\ phase' = "FREEFALL"
             /\ action
          \/ /\ phase = "FREEFALL"
             /\ phase' = "CANOPY"
             /\ action
             /\ CoordLess(altitude, Metres(MIN_DEPLOYMENT_ALTITUDE + 200))
          \/ /\ phase \in {"FREEFALL", "CANOPY"}
             /\ phase' = "LANDED"
             /\ hist'.contact.position = acc'.currentPosition
             /\ CoordLeq(acc'.currentPosition.y,
                         HeightCoord(getTerrainHeight(ToScore(acc'.currentPosition.x),
                                                      ToScore(acc'.currentPosition.z))
                                     + TERRAIN_ONE))
          \/ /\ phase = "LANDED"
             /\ phase' = "READY"
             /\ altitude' = Metres(JUMP_ALTITUDE)
             /\ score' = 0
             /\ landingQuality' = "null"
             /\ telemetry' = <<>>
             /\ jumpStartTime' = 0]_vars

\* the second jump has gone through all four phases again
C25_Witness ==
    /\ hist.jumps = 2
    /\ phase = "LANDED"
    /\ hist.canopy.frames > 0

\* ======================================================= the exit velocity
\* C26: when a jump starts the accumulator is reset, with residual 0, to the
\* jump position and the exit velocity (0, -5, -10), and the first physics
\* step of the freefall starts from that exit velocity.
C26_FirstStepFromExitVelocity ==
    /\ (phase = "FREEFALL" /\ ~hist.firstStep.done) =>
           acc = createAccumulator(JumpPosition, ExitVelocity)
    /\ hist.firstStep.done => hist.firstStep.velocity = ExitVelocity

\* ============================================================= the score
\* C27: from a ground contact until the reset the stored score is the
\* horizontal distance of the contact point from the origin, plus 100 for a
\* crash, plus 20 for a hard landing, unchanged for a good one, and less 5
\* but not below 0 for a perfect one; the score is never negative.
C27_ScoreByQuality ==
    LET x == ToScore(hist.contact.position.x)
        z == ToScore(hist.contact.position.z)
        dist == ISqrt(x * x + z * z)
    IN  /\ score >= 0
        /\ phase = "LANDED" =>
               /\ landingQuality = "crash" => score = dist + 100 * SCORE_ONE
               /\ landingQuality = "hard" => score = dist + 20 * SCORE_ONE
               /\ landingQuality = "good" => score = dist
               /\ landingQuality = "perfect" =>
                      IF dist > 5 * SCORE_ONE THEN score = dist - 5 * SCORE_ONE ELSE score = 0
        /\ phase # "LANDED" => score = 0

\* a perfect landing less than 5 m from the origin
C27_Witness ==
    /\ phase = "LANDED"
    /\ landingQuality = "perfect"
    /\ HorizontalDistance(hist.contact.position) > 0
    /\ HorizontalDistance(hist.contact.position) < 5 * SCORE_ONE
    /\ score = 0

\* ========================================================= the telemetry
\* C28: the telemetry list changes only by being emptied or by one sample
\* being appended; a sample is appended only while telemetry is enabled and
\* the phase is FREEFALL or CANOPY, and carries that phase; any two
\* consecutive samples of the list have times at least 0.5 s apart.
C28_TelemetryThrottled ==
    /\ [](\A i \in 1..Len(telemetry):
              /\ telemetry[i].phase \in {"FREEFALL", "CANOPY"}
              /\ i > 1 => telemetry[i].time - telemetry[i - 1].time >= TIME_ONE \div 2)
    /\ [][telemetry' # telemetry =>
              \/ telemetry' = <<>>
              \/ /\ Len(telemetry') = Len(telemetry) + 1
                 /\ SubSeq(telemetry', 1, Len(telemetry)) = telemetry
                 /\ telemetryEnabled
                 /\ telemetryEnabled'
                 /\ phase \in {"FREEFALL", "CANOPY"}
                 /\ phase' \in {"FREEFALL", "CANOPY"}
                 /\ telemetry'[Len(telemetry')].phase = phase'
                 /\ telemetry'[Len(telemetry')].at = elapsedTime']_vars

\* samples of the second jump, taken in both phases, after telemetry had
\* been switched on, and a frame that took none because it came too early
C28_Witness ==
    /\ hist.jumps = 2
    /\ telemetryEnabled
    /\ Len(telemetry) >= 2
    /\ telemetry[1].phase = "FREEFALL"
    /\ telemetry[Len(telemetry)].phase = "CANOPY"
    /\ phase = "CANOPY"
    /\ elapsedTime > telemetry[Len(telemetry)].at

\* C30: the time stored in a telemetry sample is the time from the jump to
\* the sample, both read on the clock the sample is taken on; it is not
\* negative.
C30_SampleTimeSinceJump ==
    \A i \in 1..Len(telemetry):
        /\ telemetry[i].time >= 0
        /\ telemetry[i].time = telemetry[i].at - hist.jumpInstant

====
